---------------------------- MODULE Spec2Model ----------------------------
(***************************************************************************)
(* The FlowMentor workflows (backend/workflows/*.py) and the routes that   *)
(* start them (backend/routes/base.py), executed by the Temporal engine   *)
(* the source is written against (temporalio: workflow.execute_activity,  *)
(* workflow.sleep, workflow.wait_condition, @workflow.signal).            *)
(*                                                                         *)
(* A workflow's run coroutine is modelled as a transition function over   *)
(* the events the engine hands it (activity completed / failed, timer     *)
(* fired, signal received); the in-memory workflow object (mem) is what   *)
(* that function has computed so far, and after a worker crash it is      *)
(* rebuilt by replaying the function over the persisted history.          *)
(* Time is counted in minutes.                                            *)
(***************************************************************************)
EXTENDS Integers, Sequences, FiniteSets, TLC

VARIABLES
    started,    \* workflow ids known to the engine
    wftype,     \* id -> workflow type of the current run
    input,      \* id -> input of the current run
    run,        \* id -> number of the current run (1, 2, ...)
    status,     \* id -> "Running" | "Completed" | "Failed"
    hist,       \* id -> persisted event history of the current run
    mem,        \* id -> the workflow object in the worker's memory
    attempt,    \* id -> attempts made of the activity call in flight
    calls,      \* id -> the invocations of the activity function made for
                \*       the run's latest activity call: every attempt while
                \*       it is retried or once it has failed for good, the
                \*       one that returned once it has completed
    timer,      \* id -> <<>> or <<fireAt>>: the persisted timer of the run
    result,     \* id -> <<>> or <<response>> of the current run
    live,       \* the worker process is up
    now,        \* wall clock, minutes
    reply,      \* the reply to the client request just served, if any
    ncrashes,   \* how many times the worker has crashed
    schedules,  \* ids of the schedules the engine holds
    setup_at,   \* <<>> or <<time setup_scheduled_workflows first ran>>
    held,       \* workflow ids a result request is waiting on
    backoff     \* <<>> or the retries of one activity call under a policy

sched_vars == <<schedules, setup_at>>

vars == <<started, wftype, input, run, status, hist, mem, attempt, calls,
          timer, result, live, now, reply, ncrashes, schedules, setup_at,
          held, backoff>>

\* ------------------------------------------------------------ bounds
MaxRuns == 2        \* runs per workflow id
MaxSignals == 2     \* signals recorded per run
MaxCrashes == 1     \* worker crashes per behaviour
MaxTime == 1        \* the clock ticks minute by minute up to here, then
                    \* jumps from deadline to deadline

\* ------------------------------------------------------------ helpers
None == <<>>
Some(x) == <<x>>

\* ------------------------------------------------------------ events
ActivityTaskCompleted(step, val) ==
    [type |-> "ActivityTaskCompleted", name |-> step, val |-> <<val>>]
ActivityTaskFailed(step) ==
    [type |-> "ActivityTaskFailed", name |-> step, val |-> <<>>]
TimerFired(step) ==
    [type |-> "TimerFired", name |-> step, val |-> <<>>]
WorkflowExecutionSignaled(sig, payload) ==
    [type |-> "WorkflowExecutionSignaled", name |-> sig, val |-> <<payload>>]

\* ============================================================ FocusLoop
FEEDBACK_TIMEOUT_MINUTES == 10

Durations == {0, 2}
FocusLoopInputs ==
    { [block |-> [block_id |-> "b1", user_id |-> "u1", date |-> "d1",
                  title |-> "t1", duration_minutes |-> d]] : d \in Durations }

\* BlockFeedback payloads a client may signal.
Feedbacks ==
    { [completed |-> FALSE, actual_duration_minutes |-> 1,
       productivity_rating |-> 1, notes |-> "n1"],
      [completed |-> TRUE, actual_duration_minutes |-> 2,
       productivity_rating |-> 5, notes |-> "n2"] }

\* A default that reports no time spent.
DefaultFeedback_zero_duration(block) ==
    [completed |-> TRUE,
     actual_duration_minutes |-> 0,
     productivity_rating |-> 3,
     notes |-> "No feedback provided"]

\* The feedback synthesized when the wait times out.
DefaultFeedback(block) ==
    [completed |-> TRUE,
     actual_duration_minutes |-> block.duration_minutes,
     productivity_rating |-> 3,
     notes |-> "No feedback provided"]

FocusLoopResponse(block) ==
    [success |-> TRUE, block_id |-> block.block_id]

\* FocusLoopWorkflow.__init__ and run up to its first await.
FocusLoopWorkflow_init(inp) ==
    [pc |-> "send_block_start_notification",
     args |-> <<inp.block>>,
     feedback_received |-> FALSE,
     feedback |-> None,
     ret |-> None]

\* The handler without the flag the wait reads.
submit_feedback_without_flag(m, feedback) ==
    [m EXCEPT !.feedback = Some(feedback)]

\* The handler keeping the first feedback it was given.
submit_feedback_keep_first(m, feedback) ==
    IF m.feedback_received THEN m
    ELSE [m EXCEPT !.feedback_received = TRUE, !.feedback = Some(feedback)]

\* The signal handler.
submit_feedback(m, feedback) ==
    [m EXCEPT !.feedback_received = TRUE, !.feedback = Some(feedback)]

\* Step 5 skipped when the feedback is the timeout's default.
FocusLoop_store_feedback_skip_default(m, block) ==
    IF m.feedback # None /\ m.feedback[1] # DefaultFeedback(block)
    THEN [m EXCEPT !.pc = "update_block_feedback",
                   !.args = <<block.block_id, block.user_id, block.date,
                              m.feedback[1]>>]
    ELSE [m EXCEPT !.pc = "done", !.args = <<>>,
                   !.ret = Some(FocusLoopResponse(block))]

\* Step 5 of run and the return that follows it.
FocusLoop_store_feedback(m, block) ==
    IF m.feedback # None
    THEN [m EXCEPT !.pc = "update_block_feedback",
                   !.args = <<block.block_id, block.user_id, block.date,
                              m.feedback[1]>>]
    ELSE [m EXCEPT !.pc = "done", !.args = <<>>,
                   !.ret = Some(FocusLoopResponse(block))]

\* run storing the feedback as soon as it is signalled, at whatever step.
FocusLoopWorkflow_run_store_on_signal(m, inp, ev) ==
    LET block == inp.block IN
    IF m.pc \in {"done", "failed"} THEN m
    ELSE IF ev.type = "WorkflowExecutionSignaled" THEN
        IF ev.name = "submit_feedback"
        THEN LET m1 == submit_feedback(m, ev.val[1]) IN
             IF m1.feedback_received
             THEN FocusLoop_store_feedback(m1, block)
             ELSE m1
        ELSE m
    ELSE IF ev.type = "ActivityTaskFailed" /\ ev.name = m.pc THEN
        [m EXCEPT !.pc = "failed", !.args = <<>>]
    ELSE IF ev.type = "ActivityTaskCompleted" /\ ev.name = m.pc THEN
        CASE m.pc = "send_block_start_notification" ->
                [m EXCEPT !.pc = "sleep", !.args = <<block.duration_minutes>>]
          [] m.pc = "send_block_end_notification" ->
                IF m.feedback_received
                THEN FocusLoop_store_feedback(m, block)
                ELSE [m EXCEPT !.pc = "wait_condition",
                               !.args = <<FEEDBACK_TIMEOUT_MINUTES>>]
          [] m.pc = "update_block_feedback" ->
                [m EXCEPT !.pc = "done", !.args = <<>>,
                          !.ret = Some(FocusLoopResponse(block))]
          [] OTHER -> m
    ELSE IF ev.type = "TimerFired" /\ ev.name = m.pc THEN
        CASE m.pc = "sleep" ->
                [m EXCEPT !.pc = "send_block_end_notification",
                          !.args = <<block>>]
          [] m.pc = "wait_condition" ->
                FocusLoop_store_feedback(
                    [m EXCEPT !.feedback = Some(DefaultFeedback(block))], block)
          [] OTHER -> m
    ELSE m

\* run, resumed with event ev.
FocusLoopWorkflow_run(m, inp, ev) ==
    LET block == inp.block IN
    IF m.pc \in {"done", "failed"} THEN m
    ELSE IF ev.type = "WorkflowExecutionSignaled" THEN
        IF ev.name = "submit_feedback"
        THEN LET m1 == submit_feedback(m, ev.val[1]) IN
             IF m.pc = "wait_condition" /\ m1.feedback_received
             THEN FocusLoop_store_feedback(m1, block)
             ELSE m1
        ELSE m
    ELSE IF ev.type = "ActivityTaskFailed" /\ ev.name = m.pc THEN
        [m EXCEPT !.pc = "failed", !.args = <<>>]
    ELSE IF ev.type = "ActivityTaskCompleted" /\ ev.name = m.pc THEN
        CASE m.pc = "send_block_start_notification" ->
                [m EXCEPT !.pc = "sleep", !.args = <<block.duration_minutes>>]
          [] m.pc = "send_block_end_notification" ->
                IF m.feedback_received
                THEN FocusLoop_store_feedback(m, block)
                ELSE [m EXCEPT !.pc = "wait_condition",
                               !.args = <<FEEDBACK_TIMEOUT_MINUTES>>]
          [] m.pc = "update_block_feedback" ->
                [m EXCEPT !.pc = "done", !.args = <<>>,
                          !.ret = Some(FocusLoopResponse(block))]
          [] OTHER -> m
    ELSE IF ev.type = "TimerFired" /\ ev.name = m.pc THEN
        CASE m.pc = "sleep" ->
                [m EXCEPT !.pc = "send_block_end_notification",
                          !.args = <<block>>]
          [] m.pc = "wait_condition" ->
                FocusLoop_store_feedback(
                    [m EXCEPT !.feedback = Some(DefaultFeedback(block))], block)
          [] OTHER -> m
    ELSE m


\* ============================================================ WeeklyGrowth
GOAL_TIMEOUT_HOURS == 24
GOAL_TIMEOUT_MINUTES == GOAL_TIMEOUT_HOURS * 60

WeeklyGrowthInputs ==
    { [user_id |-> "u1", week_start |-> "w1", week_end |-> "w2"] }

Goal1 == [goal_id |-> "goal-1", title |-> "t1"]
Goal2 == [goal_id |-> "goal-2", title |-> "t2"]
\* A goal with a generated goal's id that generate_micro_goals never returned.
Goal1x == [goal_id |-> "goal-1", title |-> "tx"]

\* What aggregate_week_data / generate_micro_goals may return.
WeeklyStatsValues == {"stats1", "stats2"}
MicroGoalLists == {<<>>, <<Goal1, Goal2>>}

\* select_goal(goal_id, goals) payloads a client may signal.
SelectGoalPayloads ==
    { [goal_id |-> "goal-2", goals |-> <<Goal1, Goal2>>],
      [goal_id |-> "goal-3", goals |-> <<Goal1, Goal2>>],
      [goal_id |-> "goal-1", goals |-> <<Goal1x>>] }

\* The last generated goal taken for the first.
DefaultGoal_last(micro_goals) ==
    IF micro_goals # <<>> THEN Some(micro_goals[Len(micro_goals)]) ELSE None

\* The goal taken when the wait times out.
DefaultGoal(micro_goals) ==
    IF micro_goals # <<>> THEN Some(micro_goals[1]) ELSE None

WeeklyGrowthWorkflow_init(inp) ==
    [pc |-> "aggregate_week_data",
     args |-> <<inp.user_id, inp.week_start, inp.week_end>>,
     goal_selected |-> FALSE,
     selected_goal |-> None,
     stats |-> None,
     micro_goals |-> None,
     ret |-> None]

\* The first goal of goals whose goal_id is goal_id, from index k on;
\* None when there is none.
RECURSIVE FirstMatch(_, _, _)
FirstMatch(goals, goal_id, k) ==
    IF k > Len(goals) THEN None
    ELSE IF goals[k].goal_id = goal_id THEN Some(goals[k])
    ELSE FirstMatch(goals, goal_id, k + 1)

\* The handler taking any signal for a selection, matched or not.
select_goal_unmatched(m, goal_id, goals) ==
    [m EXCEPT !.selected_goal = FirstMatch(goals, goal_id, 1),
              !.goal_selected = TRUE]

\* The signal handler: the goal is looked up in the list the signal carries.
select_goal(m, goal_id, goals) ==
    LET found == FirstMatch(goals, goal_id, 1) IN
    IF found # None
    THEN [m EXCEPT !.selected_goal = found, !.goal_selected = TRUE]
    ELSE m

\* Step 4 of run: the save is scheduled with the selection of that moment.
WeeklyGrowth_save_summary(m, inp) ==
    [m EXCEPT !.pc = "save_weekly_summary",
              !.args = <<inp.user_id, inp.week_start, m.stats[1],
                         m.micro_goals[1], m.selected_goal>>]

WeeklyGrowthResponse(m, saved) ==
    [success |-> saved,
     weekly_stats |-> m.stats[1],
     micro_goals |-> m.micro_goals[1],
     selected_goal |-> m.selected_goal]

WeeklyGrowthWorkflow_run(m, inp, ev) ==
    IF m.pc \in {"done", "failed"} THEN m
    ELSE IF ev.type = "WorkflowExecutionSignaled" THEN
        IF ev.name = "select_goal"
        THEN LET m1 == select_goal(m, ev.val[1].goal_id, ev.val[1].goals) IN
             IF m.pc = "wait_condition" /\ m1.goal_selected
             THEN WeeklyGrowth_save_summary(m1, inp)
             ELSE m1
        ELSE m
    ELSE IF ev.type = "ActivityTaskFailed" /\ ev.name = m.pc THEN
        [m EXCEPT !.pc = "failed", !.args = <<>>]
    ELSE IF ev.type = "ActivityTaskCompleted" /\ ev.name = m.pc THEN
        CASE m.pc = "aggregate_week_data" ->
                [m EXCEPT !.pc = "generate_micro_goals",
                          !.stats = ev.val,
                          !.args = <<inp.user_id, ev.val[1]>>]
          [] m.pc = "generate_micro_goals" ->
                LET m1 == [m EXCEPT !.micro_goals = ev.val] IN
                IF m1.goal_selected
                THEN WeeklyGrowth_save_summary(m1, inp)
                ELSE [m1 EXCEPT !.pc = "wait_condition",
                        !.args = <<GOAL_TIMEOUT_MINUTES>>]
          [] m.pc = "save_weekly_summary" ->
                [m EXCEPT !.pc = "done", !.args = <<>>,
                          !.ret = Some(WeeklyGrowthResponse(m, ev.val[1]))]
          [] OTHER -> m
    ELSE IF ev.type = "TimerFired" /\ ev.name = m.pc THEN
        IF m.pc = "wait_condition"
        THEN WeeklyGrowth_save_summary(
                 [m EXCEPT !.selected_goal = DefaultGoal(m.micro_goals[1])],
                 inp)
        ELSE m
    ELSE m

\* ============================================================ MorningCheck
MorningCheckInputs == { [user_id |-> "u1", date |-> "d1"] }
DailyPlans == {"plan1", "plan2"}

MorningCheckWorkflow_init(inp) ==
    [pc |-> "generate_ai_plan", args |-> <<inp>>, plan |-> None, ret |-> None]

MorningCheckWorkflow_run(m, inp, ev) ==
    IF m.pc \in {"done", "failed"} THEN m
    ELSE IF ev.type = "ActivityTaskFailed" /\ ev.name = m.pc THEN
        [m EXCEPT !.pc = "failed", !.args = <<>>]
    ELSE IF ev.type = "ActivityTaskCompleted" /\ ev.name = m.pc THEN
        CASE m.pc = "generate_ai_plan" ->
                [m EXCEPT !.pc = "store_plan_in_couchbase",
                          !.plan = ev.val,
                          !.args = <<inp.user_id, inp.date, ev.val[1]>>]
          [] m.pc = "store_plan_in_couchbase" ->
                [m EXCEPT !.pc = "done", !.args = <<>>,
                          !.ret = Some([success |-> ev.val[1],
                                        plan |-> m.plan[1]])]
          [] OTHER -> m
    ELSE m

\* ============================================================ DailyReflection
DailyReflectionInputs == { [user_id |-> "u1", date |-> "d1"] }
AISummaries == {"summary1", "summary2"}

DailyReflectionWorkflow_init(inp) ==
    [pc |-> "generate_ai_summary", args |-> <<inp>>,
     ai_summary |-> None, saved |-> None, ret |-> None]

DailyReflectionWorkflow_run(m, inp, ev) ==
    IF m.pc \in {"done", "failed"} THEN m
    ELSE IF ev.type = "ActivityTaskFailed" /\ ev.name = m.pc THEN
        [m EXCEPT !.pc = "failed", !.args = <<>>]
    ELSE IF ev.type = "ActivityTaskCompleted" /\ ev.name = m.pc THEN
        CASE m.pc = "generate_ai_summary" ->
                [m EXCEPT !.pc = "save_reflection",
                          !.ai_summary = ev.val,
                          !.args = <<inp.user_id, inp.date, inp, ev.val[1]>>]
          [] m.pc = "save_reflection" ->
                [m EXCEPT !.pc = "send_reflection_notification",
                          !.saved = ev.val,
                          !.args = <<inp.user_id, m.ai_summary[1]>>]
          [] m.pc = "send_reflection_notification" ->
                [m EXCEPT !.pc = "done", !.args = <<>>,
                          !.ret = Some([success |-> m.saved[1],
                                        ai_summary |-> m.ai_summary[1]])]
          [] OTHER -> m
    ELSE m


\* ============================================================ MeetingScheduler
\* A time is the string the client sent, here a tuple of its characters
\* (digits): "09:00" is <<0, 9, 0, 0>>. The code compares the strings.
T0900 == <<0, 9, 0, 0>>
T0930 == <<0, 9, 3, 0>>
T1000 == <<1, 0, 0, 0>>
T1030 == <<1, 0, 3, 0>>
Times == {T0900, T0930, T1000, T1030}
Dates == {"d1", "d2"}

TimeWindow(start_time, end_time, date) ==
    [start_time |-> start_time, end_time |-> end_time, date |-> date]

\* Every window, also those that end before they start.
TimeWindows == { TimeWindow(s, e, d) : s \in Times, e \in Times, d \in Dates }

\* The windows the longer lists are made of.
ListWindows ==
    { TimeWindow(T0900, T0930, "d1"), TimeWindow(T0930, T1030, "d1"),
      TimeWindow(T1000, T1030, "d2") }

\* The lists of at most MaxWindows windows over W.
MaxWindows == 2
WindowLists(W) ==
    UNION { [1..n -> W] : n \in 0..MaxWindows }

\* What a client may send as the two users' windows: one window each, of
\* any shape, or lists of up to MaxWindows well-formed windows.
MeetingWindowPairs ==
    { <<l1, l2>> : l1 \in WindowLists(ListWindows),
                   l2 \in WindowLists(ListWindows) }
    \cup { << <<w1>>, <<w2>> >> :
             w1 \in { w \in TimeWindows : w.date = "d1" }, w2 \in TimeWindows }

MeetingSchedulerInputs ==
    { [meeting_id |-> "m1", user1_id |-> "u1", user2_id |-> "u2",
       user1_time_windows |-> p[1], user2_time_windows |-> p[2],
       meeting_duration_minutes |-> 30, meeting_title |-> "t"] :
      p \in MeetingWindowPairs }

\* a <= b on Python strings: by the first character that differs, a prefix
\* before what it is a prefix of.
RECURSIVE StrLE(_, _)
StrLE(a, b) ==
    IF a = <<>> THEN TRUE
    ELSE IF b = <<>> THEN FALSE
    ELSE IF a[1] # b[1] THEN a[1] < b[1]
    ELSE StrLE(Tail(a), Tail(b))

\* max(a, b) and min(a, b) on strings.
StrMax(a, b) == IF StrLE(b, a) THEN a ELSE b
StrMin(a, b) == IF StrLE(a, b) THEN a ELSE b

\* The overlap test with strict comparisons.
Overlaps_strict(window1, window2) ==
    /\ window1.date = window2.date
    /\ ~StrLE(window2.end_time, window1.start_time)
    /\ ~StrLE(window1.end_time, window2.start_time)

\* The overlap test of find_optimal_slot_activity.
Overlaps(window1, window2) ==
    /\ window1.date = window2.date
    /\ StrLE(window1.start_time, window2.end_time)
    /\ StrLE(window2.start_time, window1.end_time)

\* The slot built from the later end and the earlier start.
OptimalSlot_widest(window1, window2) ==
    TimeWindow(StrMin(window1.start_time, window2.start_time),
               StrMax(window1.end_time, window2.end_time),
               window1.date)

\* The slot find_optimal_slot_activity builds from an overlapping pair.
OptimalSlot(window1, window2) ==
    TimeWindow(StrMax(window1.start_time, window2.start_time),
               StrMin(window1.end_time, window2.end_time),
               window1.date)

\* The loops with user2's windows outside and user1's inside.
RECURSIVE FindSlot_user2_outer(_, _, _, _)
FindSlot_user2_outer(user1_windows, user2_windows, i, j) ==
    IF j > Len(user2_windows) THEN None
    ELSE IF i > Len(user1_windows)
    THEN FindSlot_user2_outer(user1_windows, user2_windows, 1, j + 1)
    ELSE IF Overlaps(user1_windows[i], user2_windows[j])
    THEN Some(OptimalSlot(user1_windows[i], user2_windows[j]))
    ELSE FindSlot_user2_outer(user1_windows, user2_windows, i + 1, j)

\* The two loops of find_optimal_slot_activity from the i-th window of
\* user1 and the j-th of user2 on: user1's windows outside, user2's inside.
RECURSIVE FindSlot(_, _, _, _)
FindSlot(user1_windows, user2_windows, i, j) ==
    IF i > Len(user1_windows) THEN None
    ELSE IF j > Len(user2_windows)
    THEN FindSlot(user1_windows, user2_windows, i + 1, 1)
    ELSE IF Overlaps(user1_windows[i], user2_windows[j])
    THEN Some(OptimalSlot(user1_windows[i], user2_windows[j]))
    ELSE FindSlot(user1_windows, user2_windows, i, j + 1)

\* The minutes since midnight that a time string names (its digits are those
\* of the hour and the minute), and the length of a window in minutes.
ClockMinutes(t) == (t[1] * 10 + t[2]) * 60 + t[3] * 10 + t[4]
SlotMinutes(window) ==
    ClockMinutes(window.end_time) - ClockMinutes(window.start_time)

\* The search giving up a slot that is shorter than the meeting.
find_optimal_slot_activity_fitting(user1_windows, user2_windows, duration_minutes) ==
    LET slot == FindSlot(user1_windows, user2_windows, 1, 1) IN
    IF slot # None /\ SlotMinutes(slot[1]) < duration_minutes THEN None
    ELSE slot

\* What find_optimal_slot_activity returns: Optional[TimeWindow].
find_optimal_slot_activity(user1_windows, user2_windows, duration_minutes) ==
    FindSlot(user1_windows, user2_windows, 1, 1)

ScheduledMeeting(inp, optimal_slot) ==
    [meeting_id |-> inp.meeting_id,
     scheduled_time |-> optimal_slot,
     user1_id |-> inp.user1_id,
     user2_id |-> inp.user2_id,
     title |-> inp.meeting_title]

MeetingSchedulerResponse(success, scheduled_meeting) ==
    [success |-> success, scheduled_meeting |-> scheduled_meeting]

MeetingSchedulerWorkflow_init(inp) ==
    [pc |-> "find_optimal_slot",
     args |-> <<inp.user1_time_windows, inp.user2_time_windows,
                inp.meeting_duration_minutes>>,
     scheduled_meeting |-> None, user1_updated |-> None, ret |-> None]

\* A run that goes on to the notifications whatever the updates returned.
MeetingScheduler_after_updates_always_notify(m, inp, user2_updated) ==
    [m EXCEPT !.pc = "send_meeting_notification_user1",
              !.args = <<inp.user1_id, m.scheduled_meeting[1]>>]

\* run after both schedule updates: give up unless both returned true.
MeetingScheduler_after_updates(m, inp, user2_updated) ==
    IF ~(m.user1_updated[1] /\ user2_updated)
    THEN [m EXCEPT !.pc = "done", !.args = <<>>,
                   !.ret = Some(MeetingSchedulerResponse(
                                    FALSE, m.scheduled_meeting))]
    ELSE [m EXCEPT !.pc = "send_meeting_notification_user1",
                   !.args = <<inp.user1_id, m.scheduled_meeting[1]>>]

\* A run that goes on to the schedule updates with whatever was found.
MeetingScheduler_after_find_always_update(m, inp, optimal_slot) ==
    LET meeting == ScheduledMeeting(inp, optimal_slot) IN
    [m EXCEPT !.pc = "update_user_schedule_user1",
              !.scheduled_meeting = Some(meeting),
              !.args = <<inp.user1_id, meeting>>]

\* run after find_optimal_slot: optimal_slot is None or <<slot>>.
MeetingScheduler_after_find(m, inp, optimal_slot) ==
    IF optimal_slot = None
    THEN [m EXCEPT !.pc = "done", !.args = <<>>,
                   !.ret = Some(MeetingSchedulerResponse(FALSE, None))]
    ELSE LET meeting == ScheduledMeeting(inp, optimal_slot[1]) IN
         [m EXCEPT !.pc = "update_user_schedule_user1",
                   !.scheduled_meeting = Some(meeting),
                   !.args = <<inp.user1_id, meeting>>]

MeetingSchedulerWorkflow_run(m, inp, ev) ==
    IF m.pc \in {"done", "failed"} THEN m
    ELSE IF ev.type = "ActivityTaskFailed" /\ ev.name = m.pc THEN
        [m EXCEPT !.pc = "failed", !.args = <<>>]
    ELSE IF ev.type = "ActivityTaskCompleted" /\ ev.name = m.pc THEN
        CASE m.pc = "find_optimal_slot" ->
                MeetingScheduler_after_find(m, inp, ev.val[1])
          [] m.pc = "update_user_schedule_user1" ->
                [m EXCEPT !.pc = "update_user_schedule_user2",
                          !.user1_updated = ev.val,
                          !.args = <<inp.user2_id, m.scheduled_meeting[1]>>]
          [] m.pc = "update_user_schedule_user2" ->
                MeetingScheduler_after_updates(m, inp, ev.val[1])
          [] m.pc = "send_meeting_notification_user1" ->
                [m EXCEPT !.pc = "send_meeting_notification_user2",
                          !.args = <<inp.user2_id, m.scheduled_meeting[1]>>]
          [] m.pc = "send_meeting_notification_user2" ->
                [m EXCEPT !.pc = "done", !.args = <<>>,
                          !.ret = Some(MeetingSchedulerResponse(
                                           TRUE, m.scheduled_meeting))]
          [] OTHER -> m
    ELSE m

\* ============================================================ the engine
WorkflowTypes ==
    {"MorningCheck", "FocusLoop", "DailyReflection", "WeeklyGrowth",
     "MeetingScheduler"}

InputsOf(t) ==
    CASE t = "MorningCheck" -> MorningCheckInputs
      [] t = "FocusLoop" -> FocusLoopInputs
      [] t = "DailyReflection" -> DailyReflectionInputs
      [] t = "WeeklyGrowth" -> WeeklyGrowthInputs
      [] t = "MeetingScheduler" -> MeetingSchedulerInputs

\* The workflow id each start route derives from its input.
WorkflowId(t, inp) ==
    CASE t = "MorningCheck" ->
            "morning-check-" \o inp.user_id \o "-" \o inp.date
      [] t = "FocusLoop" ->
            "focus-loop-" \o inp.block.user_id \o "-" \o inp.block.block_id
      [] t = "DailyReflection" ->
            "daily-reflection-" \o inp.user_id \o "-" \o inp.date
      [] t = "WeeklyGrowth" ->
            "weekly-growth-" \o inp.user_id \o "-" \o inp.week_start
      [] t = "MeetingScheduler" ->
            "meeting-scheduler-" \o inp.meeting_id

InitOf(t, inp) ==
    CASE t = "MorningCheck" -> MorningCheckWorkflow_init(inp)
      [] t = "FocusLoop" -> FocusLoopWorkflow_init(inp)
      [] t = "DailyReflection" -> DailyReflectionWorkflow_init(inp)
      [] t = "WeeklyGrowth" -> WeeklyGrowthWorkflow_init(inp)
      [] t = "MeetingScheduler" -> MeetingSchedulerWorkflow_init(inp)

RunOf(t, m, inp, ev) ==
    CASE t = "MorningCheck" -> MorningCheckWorkflow_run(m, inp, ev)
      [] t = "FocusLoop" -> FocusLoopWorkflow_run(m, inp, ev)
      [] t = "DailyReflection" -> DailyReflectionWorkflow_run(m, inp, ev)
      [] t = "WeeklyGrowth" -> WeeklyGrowthWorkflow_run(m, inp, ev)
      [] t = "MeetingScheduler" -> MeetingSchedulerWorkflow_run(m, inp, ev)

\* The signals a workflow type defines a handler for, with their payloads.
SignalsOf(t) ==
    CASE t = "FocusLoop" ->
            { <<"submit_feedback", f>> : f \in Feedbacks }
      [] t = "WeeklyGrowth" ->
            { <<"select_goal", p>> : p \in SelectGoalPayloads }
      [] OTHER -> {}

TimedSteps == {"sleep", "wait_condition"}
ClosedSteps == {"done", "failed"}
IsActivity(step) == step \notin TimedSteps \cup ClosedSteps \cup {"lost"}

\* maximum_attempts read as the number of retries after the first attempt.
maximum_attempts_as_retries(step) ==
    IF step \in {"send_reflection_notification",
                 "send_meeting_notification_user1",
                 "send_meeting_notification_user2"} THEN 3 ELSE 4

\* RetryPolicy(maximum_attempts=...) of each execute_activity call.
maximum_attempts(step) ==
    IF step \in {"send_reflection_notification",
                 "send_meeting_notification_user1",
                 "send_meeting_notification_user2"} THEN 2 ELSE 3

\* What each activity function may return. The notification activities
\* return a flag no workflow reads; one value stands for it.
Returns(step) ==
    CASE step = "generate_ai_plan" -> DailyPlans
      [] step = "generate_ai_summary" -> AISummaries
      [] step = "aggregate_week_data" -> WeeklyStatsValues
      [] step = "generate_micro_goals" -> MicroGoalLists
      [] step \in {"send_block_start_notification",
                   "send_block_end_notification"} -> {TRUE}
      [] OTHER -> BOOLEAN

\* The workflow object rebuilt from the first k events of history h.
RECURSIVE Replay(_, _, _, _)
Replay(t, inp, h, k) ==
    IF k = 0 THEN InitOf(t, inp)
    ELSE RunOf(t, Replay(t, inp, h, k - 1), inp, h[k])

\* The worker's memory after a crash.
Lost == [pc |-> "lost", args |-> <<>>, ret |-> None]

\* A run whose program raised is left open.
StatusOf_failure_left_open(m, old) ==
    IF m.pc = "done" THEN "Completed" ELSE old

StatusOf(m, old) ==
    IF m.pc = "done" THEN "Completed"
    ELSE IF m.pc = "failed" THEN "Failed" ELSE old

\* A wait_condition that is given no timeout.
TimerOf_wait_without_timeout(m1, m2, kept) ==
    IF m2.pc = m1.pc THEN kept
    ELSE IF m2.pc = "sleep" THEN <<now + m2.args[1], m2.pc>>
    ELSE <<>>

\* The run's timer once the workflow object is m2: kept while the run stays
\* at its step, created on entering a timed step, cancelled on leaving one.
TimerOf(m1, m2, kept) ==
    IF m2.pc = m1.pc THEN kept
    ELSE IF m2.pc \in TimedSteps THEN <<now + m2.args[1], m2.pc>>
    ELSE <<>>

\* Instance i's workflow object becomes m2; kept is its timer if it stays.
Settle(i, m2, kept) ==
    /\ mem' = [mem EXCEPT ![i] = m2]
    /\ status' = [status EXCEPT ![i] = StatusOf(m2, @)]
    /\ result' = [result EXCEPT ![i] = IF m2.pc = "done" THEN m2.ret ELSE @]
    /\ timer' = [timer EXCEPT ![i] = TimerOf(mem[i], m2, kept)]
    /\ attempt' = [attempt EXCEPT ![i] = IF m2.pc = mem[i].pc THEN @ ELSE 0]

\* Event ev is appended to i's history and, when the worker is up, handed
\* to the workflow.
Deliver(i, ev, kept) ==
    /\ hist' = [hist EXCEPT ![i] = Append(@, ev)]
    /\ Settle(i, IF live THEN RunOf(wftype[i], mem[i], input[i], ev)
                 ELSE mem[i], kept)

\* ------------------------------------------------------------ state
NoReply == [op |-> "none", id |-> "", outcome |-> "none", dup |-> FALSE]

InitEngine ==
    /\ started = {}
    /\ wftype = <<>> /\ input = <<>> /\ run = <<>> /\ status = <<>>
    /\ hist = <<>> /\ mem = <<>> /\ attempt = <<>> /\ calls = <<>>
    /\ timer = <<>> /\ result = <<>>
    /\ live = TRUE
    /\ now = 0
    /\ reply = NoReply
    /\ ncrashes = 0
    /\ schedules = {}
    /\ setup_at = None
    /\ held = {}

Init == InitEngine /\ backoff = None

Running(i) == i \in started /\ status[i] = "Running"

\* ------------------------------------------------------------ client
\* temporal_client.start_workflow(run, args=[inp], id=id): a new run of id,
\* unless a run of id is still open, which raises
\* WorkflowAlreadyStartedError; the route turns any exception into HTTP 500.
StartWorkflow(t, inp) ==
    LET id == WorkflowId(t, inp) IN
    /\ live
    /\ UNCHANGED <<live, now, ncrashes, schedules, setup_at, held, backoff>>
    /\ IF Running(id)
       THEN /\ reply' = [op |-> "start", id |-> id, outcome |-> "error",
                         dup |-> TRUE]
            /\ UNCHANGED <<started, wftype, input, run, status, hist, mem,
                           attempt, calls, timer, result>>
       ELSE /\ id \in started => run[id] < MaxRuns
            /\ reply' = [op |-> "start", id |-> id, outcome |-> "ok",
                         dup |-> FALSE]
            /\ started' = started \cup {id}
            /\ wftype' = (id :> t) @@ wftype
            /\ input' = (id :> inp) @@ input
            /\ run' = (id :> (IF id \in started THEN run[id] + 1 ELSE 1)) @@ run
            /\ status' = (id :> "Running") @@ status
            /\ hist' = (id :> <<>>) @@ hist
            /\ mem' = (id :> InitOf(t, inp)) @@ mem
            /\ attempt' = (id :> 0) @@ attempt
            /\ calls' = (id :> <<>>) @@ calls
            /\ timer' = (id :> <<>>) @@ timer
            /\ result' = (id :> None) @@ result

\* The requests of one behaviour are all for one workflow id.
SameId(t, inp) == started = {} \/ WorkflowId(t, inp) \in started

start_morning_check_workflow ==
    \E inp \in MorningCheckInputs :
        SameId("MorningCheck", inp) /\ StartWorkflow("MorningCheck", inp)

start_focus_loop_workflow ==
    \E inp \in FocusLoopInputs :
        SameId("FocusLoop", inp) /\ StartWorkflow("FocusLoop", inp)

start_daily_reflection_workflow ==
    \E inp \in DailyReflectionInputs :
        SameId("DailyReflection", inp) /\ StartWorkflow("DailyReflection", inp)

start_weekly_growth_workflow ==
    \E inp \in WeeklyGrowthInputs :
        SameId("WeeklyGrowth", inp) /\ StartWorkflow("WeeklyGrowth", inp)

\* The requests of one behaviour are all for one meeting: a request sent
\* again carries the same windows.
SameMeeting ==
    IF started = {} THEN MeetingSchedulerInputs
    ELSE { input[i] : i \in { j \in started : wftype[j] = "MeetingScheduler" } }

start_meeting_scheduler_workflow ==
    \E inp \in SameMeeting : StartWorkflow("MeetingScheduler", inp)

NumSignals(h) ==
    Cardinality({ k \in DOMAIN h : h[k].type = "WorkflowExecutionSignaled" })

\* A signal recorded and handled whatever the state of the run.
SignalWorkflow_to_any_run(i, sig, payload) ==
    /\ i \in started
    /\ UNCHANGED <<started, wftype, input, run, calls, live, now, ncrashes>>
    /\ UNCHANGED <<sched_vars, held, backoff>>
    /\ NumSignals(hist[i]) < MaxSignals
    /\ reply' = [op |-> "signal", id |-> i, outcome |-> "ok", dup |-> FALSE]
    /\ Deliver(i, WorkflowExecutionSignaled(sig, payload), timer[i])

\* A signal handed to every open run of the workflow type of i.
SignalWorkflow_broadcast(i, sig, payload) ==
    LET ev == WorkflowExecutionSignaled(sig, payload)
        T == { j \in started : wftype[j] = wftype[i] /\ status[j] = "Running" }
    IN
    /\ i \in T
    /\ NumSignals(hist[i]) < MaxSignals
    /\ reply' = [op |-> "signal", id |-> i, outcome |-> "ok", dup |-> FALSE]
    /\ hist' = [j \in started |->
                  IF j \in T THEN Append(hist[j], ev) ELSE hist[j]]
    /\ mem' = [j \in started |->
                 IF j \in T /\ live
                 THEN RunOf(wftype[j], mem[j], input[j], ev) ELSE mem[j]]
    /\ status' = [j \in started |-> StatusOf(mem'[j], status[j])]
    /\ result' = [j \in started |->
                    IF mem'[j].pc = "done" THEN mem'[j].ret ELSE result[j]]
    /\ timer' = [j \in started |-> TimerOf(mem[j], mem'[j], timer[j])]
    /\ attempt' = [j \in started |->
                     IF mem'[j].pc = mem[j].pc THEN attempt[j] ELSE 0]
    /\ UNCHANGED <<started, wftype, input, run, calls, live, now, ncrashes>>
    /\ UNCHANGED <<sched_vars, held, backoff>>

\* A client signals workflow id i. An open run records the signal and its
\* handler runs; a closed run rejects it and nothing changes.
SignalWorkflow(i, sig, payload) ==
    /\ i \in started
    /\ UNCHANGED <<started, wftype, input, run, calls, live, now, ncrashes>>
    /\ UNCHANGED <<sched_vars, held, backoff>>
    /\ IF status[i] = "Running"
       THEN /\ NumSignals(hist[i]) < MaxSignals
            /\ reply' = [op |-> "signal", id |-> i, outcome |-> "ok",
                         dup |-> FALSE]
            /\ Deliver(i, WorkflowExecutionSignaled(sig, payload), timer[i])
       ELSE /\ reply' = [op |-> "signal", id |-> i, outcome |-> "error",
                         dup |-> FALSE]
            /\ UNCHANGED <<status, hist, mem, attempt, timer, result>>

Signal ==
    \E i \in started : \E s \in SignalsOf(wftype[i]) :
        SignalWorkflow(i, s[1], s[2])

\* What get_workflow_result answers for a closed run: the result with
\* status "completed", or, handle.result() having raised, status "error".
ResultReply(i) ==
    [op |-> "result", id |-> i,
     outcome |-> IF status[i] = "Completed" THEN "completed" ELSE "error",
     dup |-> FALSE]

\* GET /api/workflows/{workflow_id}/result: the handler awaits
\* handle.result(), which returns or raises once the run is closed; while
\* the run is open the request is held without a reply.
get_workflow_result(i) ==
    /\ live
    /\ i \in started
    /\ i \notin held
    /\ IF status[i] = "Running"
       THEN /\ held' = held \cup {i}
            /\ reply' = NoReply
       ELSE /\ held' = held
            /\ reply' = ResultReply(i)
    /\ UNCHANGED <<started, wftype, input, run, status, hist, mem, attempt,
                   calls, timer, result, live, now, ncrashes, schedules,
                   setup_at, backoff>>

\* The await of a held request ends: the run has closed.
get_workflow_result_returns(i) ==
    /\ live
    /\ i \in held
    /\ status[i] # "Running"
    /\ held' = held \ {i}
    /\ reply' = ResultReply(i)
    /\ UNCHANGED <<started, wftype, input, run, status, hist, mem, attempt,
                   calls, timer, result, live, now, ncrashes, schedules,
                   setup_at, backoff>>

GetResult ==
    \E i \in started : get_workflow_result(i) \/ get_workflow_result_returns(i)

\* ------------------------------------------------------------ activities
CanAttempt(i) ==
    /\ live
    /\ Running(i)
    /\ IsActivity(mem[i].pc)
    /\ attempt[i] < maximum_attempts(mem[i].pc)

\* The invocation of the call in flight that an attempt makes.
Invocation(i) == [step |-> mem[i].pc, args |-> mem[i].args]

\* What an attempt of the call in flight may return: what the activity
\* function computes from its arguments where the model has its code.
Results(i) ==
    IF mem[i].pc = "find_optimal_slot"
    THEN { find_optimal_slot_activity(mem[i].args[1], mem[i].args[2],
                                      mem[i].args[3]) }
    ELSE Returns(mem[i].pc)

\* One attempt of the activity call in flight returns val.
ActivityReturns(i, val) ==
    /\ CanAttempt(i)
    /\ val \in Results(i)
    /\ calls' = [calls EXCEPT ![i] = <<Invocation(i)>>]
    /\ Deliver(i, ActivityTaskCompleted(mem[i].pc, val), timer[i])
    /\ reply' = NoReply
    /\ UNCHANGED <<sched_vars, held, backoff>>
    /\ UNCHANGED <<started, wftype, input, run, live, now, ncrashes>>

\* One attempt raises or times out: retried until maximum_attempts are
\* used up, then the call fails for good.
ActivityRaises(i) ==
    /\ CanAttempt(i)
    /\ calls' = [calls EXCEPT ![i] = Append(IF attempt[i] = 0 THEN <<>> ELSE @,
                                            Invocation(i))]
    /\ IF attempt[i] + 1 < maximum_attempts(mem[i].pc)
       THEN /\ attempt' = [attempt EXCEPT ![i] = @ + 1]
            /\ UNCHANGED <<status, hist, mem, timer, result>>
       ELSE Deliver(i, ActivityTaskFailed(mem[i].pc), timer[i])
    /\ reply' = NoReply
    /\ UNCHANGED <<sched_vars, held, backoff>>
    /\ UNCHANGED <<started, wftype, input, run, live, now, ncrashes>>

Activity ==
    \E i \in started :
        \/ \E val \in Results(i) : ActivityReturns(i, val)
        \/ ActivityRaises(i)

\* ------------------------------------------------------------ timers
\* A timer that fires whether or not its deadline has passed.
FireTimer_before_deadline(i) ==
    /\ Running(i)
    /\ timer[i] # <<>>
    /\ Deliver(i, TimerFired(timer[i][2]), <<>>)
    /\ reply' = NoReply
    /\ UNCHANGED <<sched_vars, held, backoff>>
    /\ UNCHANGED <<started, wftype, input, run, calls, live, now, ncrashes>>

\* workflow.sleep / the timeout of workflow.wait_condition: the persisted
\* timer of a run fires once its deadline has passed.
FireTimer(i) ==
    /\ Running(i)
    /\ timer[i] # <<>>
    /\ now >= timer[i][1]
    /\ Deliver(i, TimerFired(timer[i][2]), <<>>)
    /\ reply' = NoReply
    /\ UNCHANGED <<sched_vars, held, backoff>>
    /\ UNCHANGED <<started, wftype, input, run, calls, live, now, ncrashes>>

Fire == \E i \in started : FireTimer(i)

Deadlines == { timer[i][1] : i \in { j \in started : timer[j] # <<>> } }

\* Time passes while a timer is pending.
Tick ==
    /\ Deadlines # {}
    /\ \E t \in Deadlines \cup {now + 1} :
        /\ t > now
        /\ t \in Deadlines \/ t <= MaxTime
        /\ now' = t
    /\ reply' = NoReply
    /\ UNCHANGED <<sched_vars, held, backoff>>
    /\ UNCHANGED <<started, wftype, input, run, status, hist, mem, attempt,
                   calls, timer, result, live, ncrashes>>

\* ------------------------------------------------------------ worker
\* A crash that takes the pending timers with it.
Crash_losing_timers ==
    /\ live
    /\ ncrashes < MaxCrashes
    /\ live' = FALSE
    /\ ncrashes' = ncrashes + 1
    /\ mem' = [i \in started |-> Lost]
    /\ timer' = [i \in started |-> <<>>]
    /\ reply' = NoReply
    /\ UNCHANGED <<sched_vars, backoff>>
    /\ held' = {}
    /\ UNCHANGED <<started, wftype, input, run, status, hist, attempt, calls,
                   result, now>>

\* The process dies: every workflow object in memory is gone.
Crash ==
    /\ live
    /\ ncrashes < MaxCrashes
    /\ live' = FALSE
    /\ ncrashes' = ncrashes + 1
    /\ mem' = [i \in started |-> Lost]
    /\ reply' = NoReply
    /\ UNCHANGED <<sched_vars, backoff>>
    /\ held' = {}
    /\ UNCHANGED <<started, wftype, input, run, status, hist, attempt, calls,
                   timer, result, now>>

\* A restart that runs the workflow from its first step again.
Replayed_from_start(i) == InitOf(wftype[i], input[i])

\* The workflow object of run i as the restarted worker rebuilds it.
Replayed(i) == Replay(wftype[i], input[i], hist[i], Len(hist[i]))

\* The worker comes back and replays every open run from its history.
Recover ==
    /\ ~live
    /\ live' = TRUE
    /\ mem' = [i \in started |->
                 IF status[i] = "Running" THEN Replayed(i) ELSE mem[i]]
    /\ status' = [i \in started |-> StatusOf(mem'[i], status[i])]
    /\ result' = [i \in started |->
                    IF status[i] = "Running" /\ mem'[i].pc = "done"
                    THEN mem'[i].ret ELSE result[i]]
    /\ timer' = [i \in started |->
                   IF status[i] # "Running" THEN timer[i]
                   ELSE IF mem'[i].pc \notin TimedSteps THEN <<>>
                   ELSE IF timer[i] # <<>> THEN timer[i]
                   ELSE <<now + mem'[i].args[1], mem'[i].pc>>]
    /\ reply' = NoReply
    /\ UNCHANGED <<sched_vars, held, backoff>>
    /\ UNCHANGED <<started, wftype, input, run, hist, attempt, calls, now,
                   ncrashes>>

\* ------------------------------------------------------------ retry policy
\* Intervals are in seconds.
MaxAttempts == 5

RetryPolicy(attempts, initial_interval, maximum_interval, coefficient) ==
    [maximum_attempts |-> attempts,
     initial_interval |-> initial_interval,
     maximum_interval |-> maximum_interval,
     backoff_coefficient |-> coefficient]

\* backoff_coefficient is left at the library's default in every call.
DefaultBackoffCoefficient == 2

\* The policy of generate_ai_plan, generate_ai_summary, aggregate_week_data,
\* generate_micro_goals and find_optimal_slot: maximum_attempts=3,
\* initial_interval=1 s, maximum_interval=10 s.
GeneratePolicy == RetryPolicy(3, 1, 10, DefaultBackoffCoefficient)

\* The policies tried: the one above, and others like it with more
\* attempts, other intervals and other coefficients.
RetryPolicies ==
    {GeneratePolicy} \cup
    { RetryPolicy(n, i, m, c) :
        n \in 1..MaxAttempts, i \in {1, 2}, m \in {4, 10}, c \in {1, 2, 3} }

RECURSIVE Pow(_, _)
Pow(b, e) == IF e = 0 THEN 1 ELSE b * Pow(b, e - 1)

\* A delay that is never capped.
nextDelay_uncapped(policy, k) ==
    IF k >= policy.maximum_attempts THEN None
    ELSE Some(policy.initial_interval * Pow(policy.backoff_coefficient, k - 1))

\* What the engine does when attempt number k of a call has failed: None
\* when it gives up, else the delay before the next attempt.
nextDelay(policy, k) ==
    IF k >= policy.maximum_attempts THEN None
    ELSE LET d == policy.initial_interval
                      * Pow(policy.backoff_coefficient, k - 1)
         IN  Some(IF d > policy.maximum_interval
                  THEN policy.maximum_interval ELSE d)

\* One more attempt of the call fails.
AttemptFails ==
    /\ backoff # None
    /\ ~backoff[1].gave_up
    /\ LET b == backoff[1]
           d == nextDelay(b.policy, b.attempt)
       IN  backoff' =
             IF d = None THEN Some([b EXCEPT !.gave_up = TRUE])
             ELSE Some([b EXCEPT !.attempt = @ + 1,
                                 !.delays = Append(@, d[1])])
    /\ UNCHANGED <<started, wftype, input, run, status, hist, mem, attempt,
                   calls, timer, result, live, now, reply, ncrashes,
                   schedules, setup_at, held>>

\* A call under any of the policies, about to make its first attempt.
InitRetry ==
    /\ InitEngine
    /\ backoff \in { Some([policy |-> p, attempt |-> 1, delays |-> <<>>,
                            gave_up |-> FALSE]) : p \in RetryPolicies }

SpecRetry == InitRetry /\ [][AttemptFails]_vars

\* ------------------------------------------------------------ scheduler
\* Here the clock counts minutes from Sunday 00:00 of the week the
\* application starts in.
MaxDays == 1
MinutesPerDay == 24 * 60
TimeOfDay(hour, minute) == hour * 60 + minute

\* The times of day any calendar names, on each day up to MaxDays.
Instants ==
    { d * MinutesPerDay + m :
        d \in 0..MaxDays,
        m \in {TimeOfDay(8, 30), TimeOfDay(10, 0), TimeOfDay(16, 30)} }

\* A Python int, and a temporalio ScheduleRange(start): what the fields of
\* ScheduleCalendarSpec are declared to hold is ScheduleRange.
PyInt(n) == [type |-> "int", start |-> n]
ScheduleRange(n) == [type |-> "ScheduleRange", start |-> n]

\* ScheduleCalendarSpec(day_of_week=, hour=, minute=); a field left out
\* takes the library's default, which is a tuple of ScheduleRange.
EveryDayOfWeek == <<ScheduleRange(0)>>
ScheduleCalendarSpec(day_of_week, hour, minute) ==
    [day_of_week |-> day_of_week, hour |-> hour, minute |-> minute]

demo_user_id == "demo-user"

\* The three Schedule objects the setup functions build.
MorningCheckSchedule ==
    [id |-> "morning-check-" \o demo_user_id,
     workflow |-> "MorningCheck",
     workflow_id |-> "morning-check-" \o demo_user_id \o "-scheduled",
     calendar |-> ScheduleCalendarSpec(EveryDayOfWeek,
                                       <<PyInt(8)>>, <<PyInt(30)>>)]
DailyReflectionSchedule ==
    [id |-> "daily-reflection-" \o demo_user_id,
     workflow |-> "DailyReflection",
     workflow_id |-> "daily-reflection-" \o demo_user_id \o "-scheduled",
     calendar |-> ScheduleCalendarSpec(EveryDayOfWeek,
                                       <<PyInt(16)>>, <<PyInt(30)>>)]
WeeklyGrowthSchedule ==
    [id |-> "weekly-growth-" \o demo_user_id,
     workflow |-> "WeeklyGrowth",
     workflow_id |-> "weekly-growth-" \o demo_user_id \o "-scheduled",
     calendar |-> ScheduleCalendarSpec(<<PyInt(0)>>,
                                       <<PyInt(10)>>, <<PyInt(0)>>)]
Schedules ==
    {MorningCheckSchedule, DailyReflectionSchedule, WeeklyGrowthSchedule}

\* ScheduleRange._to_protos(ranges) calls _to_proto() on every element:
\* an element that is not a ScheduleRange has no such method and the call
\* raises AttributeError.
ToProtos(ranges) ==
    IF \A k \in DOMAIN ranges : ranges[k].type = "ScheduleRange"
    THEN "ok" ELSE "AttributeError"

\* client.create_schedule(id, schedule): the schedule is turned into its
\* wire form first; a schedule id already in use is refused.
create_schedule(schedule) ==
    IF \E f \in {"day_of_week", "hour", "minute"} :
           ToProtos(schedule.calendar[f]) # "ok"
    THEN "AttributeError"
    ELSE IF schedule.id \in schedules THEN "ScheduleAlreadyRunningError"
    ELSE "created"

\* setup_scheduled_workflows: each of the three setup functions calls
\* create_schedule inside try / except Exception, logs a warning when it
\* raises and returns normally, so all three are attempted and the
\* function reports success.
setup_scheduled_workflows ==
    /\ live
    /\ schedules' = schedules \cup
           { sch.id : sch \in { x \in Schedules : create_schedule(x) = "created" } }
    /\ setup_at' = IF setup_at = None THEN Some(now) ELSE setup_at
    /\ reply' = [op |-> "setup", id |-> "", outcome |-> "ok", dup |-> FALSE]
    /\ UNCHANGED <<started, wftype, input, run, status, hist, mem, attempt,
                   calls, timer, result, live, now, ncrashes, held,
                   backoff>>

\* The id the engine gives the workflow a schedule starts at time t: the
\* id of the schedule's action with the time appended.
ScheduledWorkflowId(schedule, t) == schedule.workflow_id \o "-" \o ToString(t)

\* The clock moves on to the next of the instants.
Advance ==
    /\ \E t \in Instants :
          /\ t > now
          /\ \A u \in Instants : u > now => t <= u
          /\ now' = t
    /\ reply' = NoReply
    /\ UNCHANGED <<started, wftype, input, run, status, hist, mem, attempt,
                   calls, timer, result, live, ncrashes, schedules, setup_at,
                   held, backoff>>

\* ------------------------------------------------------------ specifications
\* MorningCheck and DailyReflection: activities only, no signal, no timer.
Next ==
    \/ start_morning_check_workflow
    \/ start_daily_reflection_workflow
    \/ Activity
    \/ Crash
    \/ Recover

Spec == Init /\ [][Next]_vars

NextFocusLoop ==
    \/ start_focus_loop_workflow
    \/ Signal
    \/ Activity
    \/ Fire
    \/ Tick
    \/ Crash
    \/ Recover

SpecFocusLoop == Init /\ [][NextFocusLoop]_vars

NextWeeklyGrowth ==
    \/ start_weekly_growth_workflow
    \/ Signal
    \/ Activity
    \/ Fire
    \/ Tick
    \/ Crash
    \/ Recover

SpecWeeklyGrowth == Init /\ [][NextWeeklyGrowth]_vars

\* MeetingScheduler: activities only.
NextMeetingScheduler ==
    \/ start_meeting_scheduler_workflow
    \/ Activity
    \/ Crash
    \/ Recover

SpecMeetingScheduler == Init /\ [][NextMeetingScheduler]_vars

\* A request whose two users each offer one window of ListWindows: the
\* pair overlaps or it does not, which is all that the steps after the
\* search depend on.
OneWindowEach(inp) ==
    /\ Len(inp.user1_time_windows) = 1
    /\ Len(inp.user2_time_windows) = 1
    /\ inp.user1_time_windows[1] \in ListWindows
    /\ inp.user2_time_windows[1] \in ListWindows

start_meeting_scheduler_workflow_one_window ==
    \E inp \in SameMeeting :
        OneWindowEach(inp) /\ StartWorkflow("MeetingScheduler", inp)

\* The five workflows when no client ever sends a signal. Every attempt of
\* an activity ends, timers fire once due, time passes and a worker that
\* went down comes back.
NextUnsignalled ==
    \/ start_morning_check_workflow
    \/ start_focus_loop_workflow
    \/ start_daily_reflection_workflow
    \/ start_weekly_growth_workflow
    \/ start_meeting_scheduler_workflow_one_window
    \/ Activity
    \/ Fire
    \/ Tick
    \/ Crash
    \/ Recover

SpecUnsignalled ==
    /\ Init /\ [][NextUnsignalled]_vars
    /\ WF_vars(Activity) /\ WF_vars(Fire) /\ WF_vars(Tick)
    /\ WF_vars(Recover)

\* The application with its scheduled workflows set up: the routes of
\* MorningCheck and DailyReflection stay in use while the days pass. No
\* action starts a workflow from a schedule, because create_schedule stores
\* none.
NextScheduler ==
    \/ setup_scheduled_workflows
    \/ Advance
    \/ start_morning_check_workflow
    \/ start_daily_reflection_workflow
    \/ Activity
    \/ Crash
    \/ Recover

SpecScheduler == Init /\ [][NextScheduler]_vars

\* MorningCheck, DailyReflection and WeeklyGrowth with clients asking for
\* results and sending no signal.
NextResult ==
    \/ start_morning_check_workflow
    \/ start_daily_reflection_workflow
    \/ start_weekly_growth_workflow
    \/ GetResult
    \/ Activity
    \/ Fire
    \/ Tick
    \/ Crash
    \/ Recover

SpecResult == Init /\ [][NextResult]_vars

\* Workflows open at once: any two of two focus blocks of one user and the
\* user's weekly review, each started once.
ConcurrentFocusLoopInputs ==
    { [block |-> [block_id |-> b, user_id |-> "u1", date |-> "d1",
                  title |-> "t1", duration_minutes |-> 0]] : b \in {"b1", "b2"} }

ConcurrentStarts ==
    { <<"FocusLoop", inp>> : inp \in ConcurrentFocusLoopInputs }
        \cup { <<"WeeklyGrowth", inp>> : inp \in WeeklyGrowthInputs }

start_workflow_concurrently ==
    \E s \in ConcurrentStarts :
        /\ WorkflowId(s[1], s[2]) \notin started
        /\ Cardinality(started) < 2
        /\ StartWorkflow(s[1], s[2])

\* Each run is sent at most one signal, with one payload per signal name.
ConcurrentSignals(t) ==
    CASE t = "FocusLoop" -> { s \in SignalsOf(t) : s[2].completed }
      [] t = "WeeklyGrowth" -> { s \in SignalsOf(t) : s[2].goal_id = "goal-2" }
      [] OTHER -> {}

signal_workflow_concurrently ==
    \E i \in started : \E s \in ConcurrentSignals(wftype[i]) :
        /\ NumSignals(hist[i]) = 0
        /\ SignalWorkflow(i, s[1], s[2])

NextConcurrent ==
    \/ start_workflow_concurrently
    \/ signal_workflow_concurrently
    \/ Activity
    \/ Fire
    \/ Tick
    \/ Crash
    \/ Recover

SpecConcurrent == Init /\ [][NextConcurrent]_vars

\* ============================================================ claims
ActivityEvents == {"ActivityTaskCompleted", "ActivityTaskFailed"}

\* The steps of a run whose activity call has its outcome in history h.
CompletedSteps(h) ==
    { h[k].name : k \in { j \in DOMAIN h : h[j].type \in ActivityEvents } }

FailedSteps(h) ==
    { h[k].name : k \in { j \in DOMAIN h : h[j].type = "ActivityTaskFailed" } }

\* C1: a start request for a workflow id whose run is still Running is
\* answered with the existing handle and is not an error.
C1_DuplicateStartReturnsHandle ==
    (reply.op = "start" /\ reply.dup) => reply.outcome = "ok"

\* C2: an activity call with maximum_attempts = n (3, and 2 for the
\* notification step) is invoked at most n times; a call that has failed for
\* good was invoked exactly n times, every time for that step, and closed
\* the run.
C2_RetryBound ==
    \A i \in started :
        LET n == IF calls[i] # <<>>
                    /\ calls[i][1].step = "send_reflection_notification"
                 THEN 2 ELSE 3
        IN  /\ Len(calls[i]) <= n
            /\ attempt[i] < n
            /\ FailedSteps(hist[i]) # {} =>
                  /\ Len(calls[i]) = n
                  /\ \A k \in DOMAIN calls[i] :
                        calls[i][k].step \in FailedSteps(hist[i])
                  /\ status[i] = "Failed"
                  /\ attempt[i] = 0

C2_Witness ==
    \E i \in started :
        /\ status[i] = "Failed"
        /\ FailedSteps(hist[i]) = {"send_reflection_notification"}
        /\ Len(calls[i]) = 2

\* ------------------------------------------------------------ history
MinOf(S) == CHOOSE x \in S : \A y \in S : x <= y
MaxOf(S) == CHOOSE x \in S : \A y \in S : x >= y

SignalIdx(h) ==
    { k \in DOMAIN h : h[k].type = "WorkflowExecutionSignaled" }

\* Where the timeout of the wait fired.
WaitTimeoutIdx(h) ==
    { k \in DOMAIN h : h[k].type = "TimerFired" /\ h[k].name = "wait_condition" }

\* Where activity call step completed, 0 if it has not.
CompletedIdx(h, step) ==
    LET S == { k \in DOMAIN h :
                 h[k].type = "ActivityTaskCompleted" /\ h[k].name = step }
    IN  IF S = {} THEN 0 ELSE MinOf(S)

\* An attempt of i's activity call in flight is made in this step.
InvokedNow(i) ==
    /\ i \in started /\ i \in started' /\ run'[i] = run[i]
    /\ \/ attempt'[i] = attempt[i] + 1
       \/ /\ Len(hist'[i]) = Len(hist[i]) + 1
          /\ hist'[i][Len(hist'[i])].type \in ActivityEvents

\* C3: once the outcome of an activity call is in a run's history, the
\* activity is not invoked for that call again, whatever crashes and replays
\* follow; a replayed run stands at a step that is not yet in its history.
C3_CrashSafeReplay ==
    [][\A i \in started :
          /\ InvokedNow(i) => mem[i].pc \notin CompletedSteps(hist[i])
          /\ (live' /\ status'[i] = "Running") =>
                mem'[i].pc \notin CompletedSteps(hist'[i])]_vars

C3_Witness ==
    \E i \in started :
        /\ ncrashes > 0 /\ live
        /\ status[i] = "Running"
        /\ CompletedIdx(hist[i], "send_block_end_notification") > 0
        /\ mem[i].pc = "update_block_feedback"
        /\ attempt[i] = 1

\* ------------------------------------------------------------ FocusLoop
FocusLoopRuns == { i \in started : wftype[i] = "FocusLoop" }

\* How the feedback wait of a FocusLoop history resolved, if it has.
EndIdx(h) == CompletedIdx(h, "send_block_end_notification")
BufferedIdx(h) == { k \in SignalIdx(h) : k < EndIdx(h) }
WaitingIdx(h) == { k \in SignalIdx(h) : k > EndIdx(h) }

ResolvedByTimeout(h) ==
    /\ EndIdx(h) > 0
    /\ BufferedIdx(h) = {}
    /\ \E t \in WaitTimeoutIdx(h) : \A k \in WaitingIdx(h) : t < k

ResolvedBySignal(h) ==
    /\ EndIdx(h) > 0
    /\ \/ BufferedIdx(h) # {}
       \/ /\ WaitingIdx(h) # {}
          /\ \A t \in WaitTimeoutIdx(h) : MinOf(WaitingIdx(h)) < t

UpdateArgs(block, feedback) ==
    <<block.block_id, block.user_id, block.date, feedback>>

\* C4: when the feedback wait of a FocusLoop run ends by its timeout, with
\* no signal delivered before, 10 minutes have passed since the wait began,
\* the run is not failed by it, and update_block_feedback is called, on
\* every attempt, with completed = true, the block's duration, rating 3 and
\* the note "No feedback provided".
C4_TimeoutFallback ==
    \A i \in FocusLoopRuns :
        ResolvedByTimeout(hist[i]) =>
            LET block == input[i].block
                expected == [completed |-> TRUE,
                             actual_duration_minutes |-> block.duration_minutes,
                             productivity_rating |-> 3,
                             notes |-> "No feedback provided"]
            IN  /\ now >= block.duration_minutes + 10
                /\ status[i] = "Failed" =>
                      "update_block_feedback" \in FailedSteps(hist[i])
                /\ (live /\ status[i] = "Running") =>
                      /\ mem[i].pc = "update_block_feedback"
                      /\ mem[i].args = UpdateArgs(block, expected)
                /\ \A k \in DOMAIN calls[i] :
                      calls[i][k].step = "update_block_feedback" =>
                          calls[i][k].args = UpdateArgs(block, expected)

C4_Witness ==
    \E i \in FocusLoopRuns :
        /\ ResolvedByTimeout(hist[i])
        /\ SignalIdx(hist[i]) = {}
        /\ input[i].block.duration_minutes = 2
        /\ status[i] = "Completed"
        /\ calls[i][1].step = "update_block_feedback"

\* C5: a submit_feedback signal delivered to a running FocusLoop before the
\* wait has timed out is not lost: the run does not stay in the wait once
\* the end notification is done (a signal buffered earlier resolves the wait
\* at once), and every attempt of update_block_feedback gets a payload that
\* was signalled, not the default.
C5_SignalNotLost ==
    \A i \in FocusLoopRuns :
        LET h == hist[i]
            intime == { k \in SignalIdx(h) :
                          \A t \in WaitTimeoutIdx(h) : k < t }
        IN  intime # {} =>
              /\ (live /\ status[i] = "Running" /\ EndIdx(h) > 0) =>
                    mem[i].pc = "update_block_feedback"
              /\ \A k \in DOMAIN calls[i] :
                    calls[i][k].step = "update_block_feedback" =>
                        /\ calls[i][k].args[4] \in
                              { h[j].val[1] : j \in intime }
                        /\ calls[i][k].args[4] #
                              DefaultFeedback(input[i].block)

C5_Witness ==
    \E i \in FocusLoopRuns :
        /\ status[i] = "Completed"
        /\ hist[i][1].type = "WorkflowExecutionSignaled"
        /\ NumSignals(hist[i]) = 1
        /\ WaitTimeoutIdx(hist[i]) = {}
        /\ calls[i][1].step = "update_block_feedback"
        /\ calls[i][1].args[4] = hist[i][1].val[1]

Closed == {"Completed", "Failed"}

C8_EarliestSignalWins ==
    \A i \in FocusLoopRuns :
        ResolvedBySignal(hist[i]) =>
            \A k \in DOMAIN calls[i] :
                calls[i][k].step = "update_block_feedback" =>
                    calls[i][k].args[4] =
                        hist[i][MinOf(SignalIdx(hist[i]))].val[1]

\* The signal whose payload is in effect when the wait resolves: the latest
\* of those buffered before the wait began, else the first to arrive during
\* the wait.
ResolvingIdx(h) ==
    IF BufferedIdx(h) # {} THEN MaxOf(BufferedIdx(h))
    ELSE MinOf(WaitingIdx(h))

\* C8 as amended: when the feedback wait of a FocusLoop run is resolved by a
\* signal, update_block_feedback gets, on every attempt, the payload of the
\* latest signal delivered before the wait resolved; signals delivered
\* earlier are overwritten and signals delivered later are not used.
C8_LatestSignalWins ==
    \A i \in FocusLoopRuns :
        ResolvedBySignal(hist[i]) =>
            /\ (live /\ status[i] = "Running") =>
                  mem[i].args[4] = hist[i][ResolvingIdx(hist[i])].val[1]
            /\ \A k \in DOMAIN calls[i] :
                  calls[i][k].step = "update_block_feedback" =>
                      calls[i][k].args[4] =
                          hist[i][ResolvingIdx(hist[i])].val[1]

C8_Witness ==
    \E i \in FocusLoopRuns :
        /\ status[i] = "Completed"
        /\ Cardinality(BufferedIdx(hist[i])) = 2
        /\ hist[i][MinOf(BufferedIdx(hist[i]))].val #
              hist[i][MaxOf(BufferedIdx(hist[i]))].val
        /\ calls[i][1].step = "update_block_feedback"
        /\ calls[i][1].args[4] = hist[i][MaxOf(BufferedIdx(hist[i]))].val[1]

\* ------------------------------------------------------------ WeeklyGrowth
WeeklyGrowthRuns == { i \in started : wftype[i] = "WeeklyGrowth" }

GenIdx(h) == CompletedIdx(h, "generate_micro_goals")
GeneratedGoals(h) == h[GenIdx(h)].val[1]

\* The select_goal signals of h that name a goal of the list they carry.
SelectingIdx(h) ==
    { k \in SignalIdx(h) :
        \E j \in DOMAIN h[k].val[1].goals :
            h[k].val[1].goals[j].goal_id = h[k].val[1].goal_id }

\* The goal wait ended by its timeout: no selecting signal came before.
GoalTimedOut(h) ==
    /\ GenIdx(h) > 0
    /\ \E t \in WaitTimeoutIdx(h) : \A k \in SelectingIdx(h) : t < k

FirstGenerated(h) ==
    IF GeneratedGoals(h) = <<>> THEN None ELSE Some(GeneratedGoals(h)[1])

\* C7: a signal that arrives after the wait has timed out has no effect.
\* FocusLoop: every attempt of update_block_feedback gets the default
\* feedback. WeeklyGrowth: save_weekly_summary gets the default goal and the
\* result of the completed run carries that same goal, as if no signal had
\* been sent.
C7_LateSignalAfterTimeout ==
    /\ \A i \in FocusLoopRuns :
          ResolvedByTimeout(hist[i]) =>
              \A k \in DOMAIN calls[i] :
                  calls[i][k].step = "update_block_feedback" =>
                      calls[i][k].args[4].notes = "No feedback provided"
    /\ \A i \in WeeklyGrowthRuns :
          GoalTimedOut(hist[i]) =>
              /\ \A k \in DOMAIN calls[i] :
                    calls[i][k].step = "save_weekly_summary" =>
                        calls[i][k].args[5] = FirstGenerated(hist[i])
              /\ status[i] = "Completed" =>
                    result[i][1].selected_goal = FirstGenerated(hist[i])

\* C9: when the goal wait of a WeeklyGrowth run ends by its timeout, 24
\* hours have passed, the goal selected is the first generated goal, or
\* none when no goal was generated; the run is not failed by the timeout;
\* save_weekly_summary is called, on every attempt, with that goal; and
\* with no signal at all the result carries it.
C9_GoalDefault ==
    \A i \in WeeklyGrowthRuns :
        GoalTimedOut(hist[i]) =>
            /\ now >= GOAL_TIMEOUT_HOURS * 60
            /\ status[i] = "Failed" =>
                  "save_weekly_summary" \in FailedSteps(hist[i])
            /\ (live /\ status[i] = "Running") =>
                  /\ mem[i].pc = "save_weekly_summary"
                  /\ mem[i].args[5] = FirstGenerated(hist[i])
            /\ \A k \in DOMAIN calls[i] :
                  calls[i][k].step = "save_weekly_summary" =>
                      calls[i][k].args[5] = FirstGenerated(hist[i])
            /\ (status[i] = "Completed" /\ SignalIdx(hist[i]) = {}) =>
                  result[i][1].selected_goal = FirstGenerated(hist[i])

C9_Witness ==
    \E i \in WeeklyGrowthRuns :
        /\ GoalTimedOut(hist[i])
        /\ SignalIdx(hist[i]) = {}
        /\ status[i] = "Completed"
        /\ calls[i][1].step = "save_weekly_summary"
        /\ calls[i][1].args[5] = Some(Goal1)
        /\ result[i][1].micro_goals = <<Goal1, Goal2>>

\* C10: the goal a completed WeeklyGrowth run reports as selected is none
\* or one of the goals the run generated and reports in micro_goals.
C10_SelectedGoalIsGenerated ==
    \A i \in WeeklyGrowthRuns :
        status[i] = "Completed" =>
            \/ result[i][1].selected_goal = None
            \/ \E k \in DOMAIN result[i][1].micro_goals :
                  result[i][1].micro_goals[k] = result[i][1].selected_goal[1]

\* ------------------------------------------------------------ MeetingScheduler
MeetingSchedulerRuns == { i \in started : wftype[i] = "MeetingScheduler" }

FindIdx(h) == CompletedIdx(h, "find_optimal_slot")
\* What find_optimal_slot returned in h: None or <<slot>>.
FoundSlot(h) == h[FindIdx(h)].val[1]

\* C11: for one window w1 of user1 and one window w2 of user2,
\* find_optimal_slot returns a slot exactly when w1.date = w2.date,
\* w1.start <= w2.end and w2.start <= w1.end; the slot is on that date, its
\* start is the later of the two starts and its end the earlier of the two
\* ends; and when both windows have start <= end so has the slot, which
\* then lies inside both windows.
C11_OverlapRule ==
    \A i \in MeetingSchedulerRuns :
        LET u1 == input[i].user1_time_windows
            u2 == input[i].user2_time_windows
        IN  (FindIdx(hist[i]) > 0 /\ Len(u1) = 1 /\ Len(u2) = 1) =>
            LET w1 == u1[1]
                w2 == u2[1]
                r == FoundSlot(hist[i])
            IN  /\ (r # None) <=>
                      /\ w1.date = w2.date
                      /\ StrLE(w1.start_time, w2.end_time)
                      /\ StrLE(w2.start_time, w1.end_time)
                /\ r # None =>
                      /\ r[1].date = w1.date
                      /\ r[1].start_time \in {w1.start_time, w2.start_time}
                      /\ StrLE(w1.start_time, r[1].start_time)
                      /\ StrLE(w2.start_time, r[1].start_time)
                      /\ r[1].end_time \in {w1.end_time, w2.end_time}
                      /\ StrLE(r[1].end_time, w1.end_time)
                      /\ StrLE(r[1].end_time, w2.end_time)
                      /\ (StrLE(w1.start_time, w1.end_time)
                          /\ StrLE(w2.start_time, w2.end_time)) =>
                             StrLE(r[1].start_time, r[1].end_time)

\* [09:00, 10:00] and [09:30, 10:30] on one date give [09:30, 10:00].
C11_Witness ==
    \E i \in MeetingSchedulerRuns :
        /\ input[i].user1_time_windows = <<TimeWindow(T0900, T1000, "d1")>>
        /\ input[i].user2_time_windows = <<TimeWindow(T0930, T1030, "d1")>>
        /\ FindIdx(hist[i]) > 0
        /\ FoundSlot(hist[i]) = Some(TimeWindow(T0930, T1000, "d1"))

\* The pairs <<a, b>> of positions whose windows overlap, and the first of
\* them with user1's position counting first.
OverlappingPairs(u1, u2) ==
    { p \in (DOMAIN u1) \X (DOMAIN u2) : Overlaps(u1[p[1]], u2[p[2]]) }
FirstPair(P) ==
    CHOOSE p \in P :
        \A q \in P : p[1] < q[1] \/ (p[1] = q[1] /\ p[2] <= q[2])

\* C12: find_optimal_slot returns the overlap of the first overlapping
\* pair, user1's windows taken in list order and for each of them user2's
\* in list order, whatever later pairs overlap; it returns no slot only
\* when no pair overlaps.
C12_FirstOverlapWins ==
    \A i \in MeetingSchedulerRuns :
        FindIdx(hist[i]) > 0 =>
            LET u1 == input[i].user1_time_windows
                u2 == input[i].user2_time_windows
                P == OverlappingPairs(u1, u2)
            IN  IF P = {} THEN FoundSlot(hist[i]) = None
                ELSE FoundSlot(hist[i]) =
                        Some(OptimalSlot(u1[FirstPair(P)[1]],
                                         u2[FirstPair(P)[2]]))

\* The first pair wins over a later pair that is earlier in the day and
\* over a pair user2 lists first.
C12_Witness ==
    \E i \in MeetingSchedulerRuns :
        LET u1 == input[i].user1_time_windows
            u2 == input[i].user2_time_windows
        IN  /\ u1 = <<TimeWindow(T0930, T1030, "d1"),
                      TimeWindow(T0900, T0930, "d1")>>
            /\ u2 = <<TimeWindow(T1000, T1030, "d2"),
                      TimeWindow(T0930, T1030, "d1")>>
            /\ FindIdx(hist[i]) > 0
            /\ FoundSlot(hist[i]) = Some(TimeWindow(T0930, T1030, "d1"))

\* C13: when find_optimal_slot returns no slot the run is Completed at
\* once with success = false and no scheduled meeting; its history ends
\* there, and no update_user_schedule and no send_meeting_notification is
\* invoked.
C13_NoSlotNoFurtherSteps ==
    \A i \in MeetingSchedulerRuns :
        (FindIdx(hist[i]) > 0 /\ FoundSlot(hist[i]) = None) =>
            /\ status[i] = "Completed"
            /\ result[i] = Some([success |-> FALSE,
                                 scheduled_meeting |-> None])
            /\ Len(hist[i]) = 1
            /\ attempt[i] = 0
            /\ \A k \in DOMAIN calls[i] :
                  calls[i][k].step = "find_optimal_slot"

\* Disjoint windows on one date.
C13_Witness ==
    \E i \in MeetingSchedulerRuns :
        /\ input[i].user1_time_windows = <<TimeWindow(T0900, T0930, "d1")>>
        /\ input[i].user2_time_windows = <<TimeWindow(T1000, T1030, "d1")>>
        /\ status[i] = "Completed"
        /\ result[i][1].success = FALSE
        /\ result[i][1].scheduled_meeting = None

UpdateSteps == {"update_user_schedule_user1", "update_user_schedule_user2"}
MeetingNotificationSteps ==
    {"send_meeting_notification_user1", "send_meeting_notification_user2"}

\* C14: when a slot was found and the schedule update of either user
\* fails, by returning false or by failing for good, the run ends
\* Completed with success = false and a result that carries the meeting
\* (the slot, both user ids, the title), and no notification is invoked.
C14_FailedUpdateKeepsMeeting ==
    \A i \in MeetingSchedulerRuns :
        LET h == hist[i]
            failed == \E k \in DOMAIN h :
                         /\ h[k].name \in UpdateSteps
                         /\ \/ h[k].type = "ActivityTaskFailed"
                            \/ /\ h[k].type = "ActivityTaskCompleted"
                               /\ h[k].val[1] = FALSE
        IN  failed =>
              /\ \A k \in DOMAIN h : h[k].name \notin MeetingNotificationSteps
              /\ status[i] # "Running" =>
                    /\ status[i] = "Completed"
                    /\ result[i][1].success = FALSE
                    /\ result[i][1].scheduled_meeting =
                          Some([meeting_id |-> input[i].meeting_id,
                                scheduled_time |-> FoundSlot(h)[1],
                                user1_id |-> input[i].user1_id,
                                user2_id |-> input[i].user2_id,
                                title |-> input[i].meeting_title])

\* ------------------------------------------------------------ results
NotificationSteps ==
    {"send_reflection_notification"} \cup MeetingNotificationSteps

\* C15: a notification step that fails for good, its 2 attempts used up,
\* does not fail the run: no run is Failed with a notification step as the
\* call that failed.
C15_NotificationNeverFailsRun ==
    \A i \in started :
        status[i] = "Failed" =>
            FailedSteps(hist[i]) \cap NotificationSteps = {}

MorningCheckRuns == { i \in started : wftype[i] = "MorningCheck" }

\* C16: once generate_ai_plan has succeeded a MorningCheck run is never
\* Failed, whatever becomes of store_plan_in_couchbase, and when it has
\* ended its result carries the generated plan and success = the outcome
\* of the store.
C16_MorningCheckResult ==
    \A i \in MorningCheckRuns :
        LET h == hist[i]
            g == CompletedIdx(h, "generate_ai_plan")
            st == CompletedIdx(h, "store_plan_in_couchbase")
        IN  g > 0 =>
              /\ status[i] # "Failed"
              /\ status[i] = "Completed" =>
                    /\ st > g
                    /\ result[i] = Some([success |-> h[st].val[1],
                                         plan |-> h[g].val[1]])

DailyReflectionRuns == { i \in started : wftype[i] = "DailyReflection" }

\* C17: a DailyReflection run records generate_ai_summary, save_reflection
\* and send_reflection_notification in that order; the notification is
\* invoked whatever save_reflection returned; and the run ends, whatever
\* the outcome of the notification, with a result that carries the
\* generated summary and success = what save_reflection returned.
C17_DailyReflectionResult ==
    \A i \in DailyReflectionRuns :
        LET h == hist[i]
            g == CompletedIdx(h, "generate_ai_summary")
            sv == CompletedIdx(h, "save_reflection")
        IN  /\ \A k \in DOMAIN h :
                  h[k].name = IF k = 1 THEN "generate_ai_summary"
                              ELSE IF k = 2 THEN "save_reflection"
                              ELSE "send_reflection_notification"
            /\ (sv > 0 /\ live /\ status[i] = "Running") =>
                  mem[i].pc = "send_reflection_notification"
            /\ (sv > 0 /\ status[i] # "Running") =>
                  /\ status[i] = "Completed"
                  /\ result[i] = Some([success |-> h[sv].val[1],
                                       ai_summary |-> h[g].val[1]])

\* C18: once the status of a workflow id is Completed or Failed, no later
\* event (a signal, a timer, an activity outcome, another start request, a
\* crash and replay) changes the status or the result recorded for it.
C18_TerminalAbsorbing ==
    [][\A i \in started :
          status[i] \in Closed =>
              /\ status'[i] = status[i]
              /\ result'[i] = result[i]]_vars

\* ------------------------------------------------------------ termination
\* How long the wait of each workflow type may last, in minutes.
WaitLimit(t) == IF t = "FocusLoop" THEN 10 ELSE 24 * 60

\* A run that stands at its wait has a timer pending for it, due no more
\* than the limit from now.
WaitsAreBounded ==
    \A i \in started :
        /\ (live /\ status[i] = "Running" /\ mem[i].pc = "wait_condition") =>
              /\ timer[i] # <<>>
              /\ timer[i][2] = "wait_condition"
        /\ (status[i] = "Running" /\ timer[i] # <<>>
            /\ timer[i][2] = "wait_condition") =>
              timer[i][1] - now <= WaitLimit(wftype[i])

SomeRunning == \E i \in started : status[i] = "Running"

\* C19: with no signal ever sent, every run of each of the five workflows
\* ends (Completed or Failed), and while it lasts the FocusLoop feedback
\* wait has a timeout due within 10 minutes and the WeeklyGrowth goal wait
\* one due within 24 hours.
C19_BoundedWaitsAndTermination ==
    /\ []WaitsAreBounded
    /\ SomeRunning ~> ~SomeRunning

C19_Witness ==
    \E i \in FocusLoopRuns :
        /\ status[i] = "Completed"
        /\ SignalIdx(hist[i]) = {}
        /\ WaitTimeoutIdx(hist[i]) # {}
        /\ input[i].block.duration_minutes = 0
        /\ now = 10

\* ------------------------------------------------------------ timers
\* The step appends exactly event ev to i's history.
Appends(i, ev) ==
    /\ Len(hist'[i]) = Len(hist[i]) + 1
    /\ hist'[i][Len(hist'[i])] = ev

Sleeping(i) == timer[i] # <<>> /\ timer[i][2] = "sleep"

\* C21: the FocusLoop sleep timer is set, when the start notification
\* completes, to fire duration_minutes later; it is not moved while pending
\* and fires no earlier than that; the end notification is not invoked
\* before it has fired; with duration_minutes = 0 it is due at once.
C21_FocusLoopTimer ==
    [][\A i \in started :
          (wftype[i] = "FocusLoop" /\ run'[i] = run[i]) =>
              LET d == input[i].block.duration_minutes IN
              /\ (~Sleeping(i) /\ timer'[i] # <<>> /\ timer'[i][2] = "sleep") =>
                    /\ Appends(i, ActivityTaskCompleted(
                                      "send_block_start_notification", TRUE))
                    /\ timer'[i] = <<now + d, "sleep">>
                    /\ d = 0 => timer'[i][1] <= now'
              /\ Sleeping(i) =>
                    \/ timer'[i] = timer[i]
                    \/ /\ Appends(i, TimerFired("sleep"))
                       /\ now >= timer[i][1]
              /\ (/\ calls'[i] # calls[i]
                  /\ calls'[i] # <<>>
                  /\ calls'[i][Len(calls'[i])].step =
                         "send_block_end_notification") =>
                    \E k \in DOMAIN hist[i] : hist[i][k] = TimerFired("sleep")]_vars

C21_Witness ==
    \E i \in FocusLoopRuns :
        /\ input[i].block.duration_minutes > 0
        /\ \E k \in DOMAIN hist[i] : hist[i][k] = TimerFired("sleep")
        /\ calls[i] # <<>>
        /\ calls[i][1].step = "send_block_end_notification"
        /\ now = input[i].block.duration_minutes

\* The events of history h that say timer step fired.
FiredIdx(h, step) == { k \in DOMAIN h : h[k] = TimerFired(step) }

\* The events of history h that close the activity call of step.
OutcomeIdx(h, step) ==
    { k \in DOMAIN h : h[k].type \in ActivityEvents /\ h[k].name = step }

\* No timer is lost and none wakes its run twice: a Running FocusLoop run
\* that its history places at a timed step has the timer of that step
\* pending, whether the worker is up or down; each timer fired at most
\* once, and the end notification was called at most once, exactly once
\* when the run completed.
TimersKept ==
    \A i \in FocusLoopRuns :
        /\ (status[i] = "Running" /\ Replayed(i).pc \in TimedSteps) =>
              /\ timer[i] # <<>>
              /\ timer[i][2] = Replayed(i).pc
        /\ \A step \in TimedSteps : Cardinality(FiredIdx(hist[i], step)) <= 1
        /\ Cardinality(OutcomeIdx(hist[i], "send_block_end_notification")) <= 1
        /\ status[i] = "Completed" =>
              Cardinality(OutcomeIdx(hist[i], "send_block_end_notification")) = 1

\* C22: a worker going down and coming back leaves every pending timer of
\* a FocusLoop run as it was, with its deadline; a timer fires only once its
\* deadline has come, also while the worker is down or just back; no timer
\* is lost or fires twice, and the end notification is called once.
C22_TimerRecovery ==
    /\ []TimersKept
    /\ [][\A i \in started :
             (wftype[i] = "FocusLoop" /\ run'[i] = run[i]) =>
                 /\ (live' # live /\ Sleeping(i)) => timer'[i] = timer[i]
                 /\ (\E step \in TimedSteps : Appends(i, TimerFired(step))) =>
                       /\ timer[i] # <<>>
                       /\ now >= timer[i][1]
                       /\ timer'[i] = <<>>]_vars

C22_Witness ==
    \E i \in FocusLoopRuns :
        /\ ~live
        /\ input[i].block.duration_minutes > 0
        /\ hist[i] # <<>>
        /\ hist[i][Len(hist[i])] = TimerFired("sleep")
        /\ now >= input[i].block.duration_minutes

\* ------------------------------------------------------------ schedules
DayOfWeek(t) == (t \div MinutesPerDay) % 7

\* The calendar rule of each schedule: daily 08:30, daily 16:30, Sunday
\* (day 0) 10:00.
CalendarRule(schedule, t) ==
    CASE schedule.workflow = "MorningCheck" ->
            t % MinutesPerDay = TimeOfDay(8, 30)
      [] schedule.workflow = "DailyReflection" ->
            t % MinutesPerDay = TimeOfDay(16, 30)
      [] schedule.workflow = "WeeklyGrowth" ->
            DayOfWeek(t) = 0 /\ t % MinutesPerDay = TimeOfDay(10, 0)

\* C24: once the schedules have been set up, every time a schedule's
\* calendar rule names (daily 08:30, daily 16:30, Sunday 10:00) has its
\* workflow started by the time the clock has moved past it.
C24_CalendarRules ==
    \A schedule \in Schedules : \A t \in Instants :
        (setup_at # None /\ setup_at[1] < t /\ t < now
         /\ CalendarRule(schedule, t)) =>
            ScheduledWorkflowId(schedule, t) \in started

\* ------------------------------------------------------------ results
\* C25: a result request never waits for the run: no request is held, and
\* the reply to a result request is the result for a Completed run and the
\* error for a Failed one.
C25_ResultNeverWaits ==
    /\ held = {}
    /\ (reply.op = "result" /\ status[reply.id] = "Completed") =>
           reply.outcome = "completed"
    /\ (reply.op = "result" /\ status[reply.id] = "Failed") =>
           reply.outcome = "error"

\* A run whose activity call failed for good: that event is the last of
\* its history, the run is Failed with no result, the invocations made
\* last are those of the failed step, and a result request is answered
\* with the error.
FailureCloses ==
    \A i \in started : \A k \in DOMAIN hist[i] :
        hist[i][k].type = "ActivityTaskFailed" =>
            /\ k = Len(hist[i])
            /\ status[i] = "Failed"
            /\ result[i] = None
            /\ \A j \in DOMAIN calls[i] : calls[i][j].step = hist[i][k].name
            /\ (reply.op = "result" /\ reply.id = i) => reply.outcome = "error"

\* C26: the terminal failure of an activity call (generate_ai_plan,
\* aggregate_week_data, generate_micro_goals, ...) ends the run as Failed,
\* no later step is invoked, a result request reports the error, and the
\* engine starts no new run of a Failed workflow: only a client's start
\* request does.
C26_FailurePropagation ==
    /\ []FailureCloses
    /\ [][\A i \in started :
             status[i] = "Failed" =>
                \/ /\ run'[i] = run[i]
                   /\ status'[i] = "Failed"
                   /\ hist'[i] = hist[i]
                   /\ calls'[i] = calls[i]
                \/ reply' = [op |-> "start", id |-> i, outcome |-> "ok",
                             dup |-> FALSE]]_vars

C26_Witness ==
    \E i \in MorningCheckRuns :
        /\ hist[i] = <<ActivityTaskFailed("generate_ai_plan")>>
        /\ status[i] = "Failed"
        /\ reply = [op |-> "result", id |-> i, outcome |-> "error",
                    dup |-> FALSE]

\* ------------------------------------------------------------ isolation
\* The step changes something instance i owns.
Changed(i) ==
    <<hist'[i], mem'[i], timer'[i], status'[i], result'[i], attempt'[i],
      calls'[i]>>
        # <<hist[i], mem[i], timer[i], status[i], result[i], attempt[i],
            calls[i]>>

\* C28: while the worker stays up, a step (signal, timer firing, activity
\* attempt) changes the history, workflow object, timer, status, result and
\* attempts of at most one instance, and a signal changes those of no
\* instance but the one it is sent to.
C28_InstanceIsolation ==
    [][live' = live =>
          /\ \A i, j \in started :
                (i # j /\ Changed(i)) => ~Changed(j)
          /\ reply'.op = "signal" =>
                \A j \in started : (j # reply'.id) => ~Changed(j)]_vars

\* A feedback signal has just resolved the wait of one FocusLoop run while
\* another FocusLoop run is still waiting.
C28_Witness ==
    /\ reply.op = "signal" /\ reply.outcome = "ok"
    /\ \E i, j \in FocusLoopRuns :
          /\ i # j
          /\ reply.id = i
          /\ mem[i].pc = "update_block_feedback"
          /\ hist[i][Len(hist[i])].type = "WorkflowExecutionSignaled"
          /\ mem[j].pc = "wait_condition"
          /\ SignalIdx(hist[j]) = {}

\* ------------------------------------------------------------ history
IsPrefix(a, b) == Len(a) <= Len(b) /\ \A k \in DOMAIN a : a[k] = b[k]

\* Status and result are what replaying run over the history yields.
HistoryAuthoritative ==
    \A i \in started :
        LET m == Replayed(i) IN
        /\ status[i] = StatusOf(m, "Running")
        /\ result[i] = (IF m.pc = "done" THEN m.ret ELSE None)

\* C29: the history kept for a workflow id only ever grows at its end, and
\* the id's status and result are those that replaying run over that
\* history yields.
C29_HistoryAppendOnly ==
    /\ []HistoryAuthoritative
    /\ [][\A i \in started : IsPrefix(hist[i], hist'[i])]_vars

KeyedFocusLoopInputs ==
    { [block |-> [block_id |-> b, user_id |-> u, date |-> "d1",
                  title |-> "t1", duration_minutes |-> 0]] :
        u \in {"u", "u-1"}, b \in {"b", "1-b"} }

KeyedMorningCheckInputs ==
    { [user_id |-> u, date |-> d] : u \in {"u", "u-1"}, d \in {"d", "1-d"} }

KeyedStarts ==
    { <<"FocusLoop", inp>> : inp \in KeyedFocusLoopInputs }
        \cup { <<"MorningCheck", inp>> : inp \in KeyedMorningCheckInputs }

start_workflow_with_key ==
    \E s \in KeyedStarts :
        /\ SameId(s[1], s[2])
        /\ StartWorkflow(s[1], s[2])

NextKeys ==
    \/ start_workflow_with_key
    \/ Activity
    \/ Fire
    \/ Tick

SpecKeys == Init /\ [][NextKeys]_vars

\* The business key of a start request: what the spec says the id stands for.
BusinessKey(t, inp) ==
    CASE t = "MorningCheck" -> <<inp.user_id, inp.date>>
      [] t = "FocusLoop" -> <<inp.block.user_id, inp.block.block_id>>
      [] t = "DailyReflection" -> <<inp.user_id, inp.date>>
      [] t = "WeeklyGrowth" -> <<inp.user_id, inp.week_start>>
      [] t = "MeetingScheduler" -> <<inp.meeting_id>>

\* C31: the instance id stands for exactly one (workflow type, business key):
\* every start request that maps to the id of a started instance has that
\* instance's type and business key, and a request with that type and key maps
\* to that id.
C31_OneInstancePerKey ==
    \A i \in started : \A s \in KeyedStarts :
        (WorkflowId(s[1], s[2]) = i)
            <=> (/\ s[1] = wftype[i]
                 /\ BusinessKey(s[1], s[2]) = BusinessKey(wftype[i], input[i]))


\* ------------------------------------------------------------ step order
\* One run of FocusLoop from its start to its end, with signals, retries,
\* crashes and recoveries; the block is not started again.
start_focus_loop_workflow_once ==
    \E inp \in FocusLoopInputs :
        started = {} /\ StartWorkflow("FocusLoop", inp)

NextFocusLoopRun ==
    \/ start_focus_loop_workflow_once
    \/ Signal
    \/ Activity
    \/ Fire
    \/ Tick
    \/ Crash
    \/ Recover

SpecFocusLoopRun == Init /\ [][NextFocusLoopRun]_vars

\* Where history h has its activity and timer events.
StepIdx(h) == DOMAIN h \ SignalIdx(h)

\* The place of a FocusLoop step in run.
FocusLoopRank(step) ==
    CASE step = "send_block_start_notification" -> 1
      [] step = "sleep" -> 2
      [] step = "send_block_end_notification" -> 3
      [] step = "wait_condition" -> 4
      [] step = "update_block_feedback" -> 5
      [] OTHER -> 6

\* C32: the steps of a FocusLoop run happen in the order start notification,
\* duration timer, end notification, feedback wait, update_block_feedback,
\* terminal result, whatever retries, crashes and replays occur: the step
\* events of the history are in that order with none repeated or left out
\* (the wait's timeout is absent when a signal resolved the wait), nothing
\* follows a failed call, a step is invoked, pending or stood at only when
\* the steps before it have completed, and update_block_feedback only when
\* the wait has been resolved by a signal or by the timeout.
C32_StepOrder ==
    \A i \in FocusLoopRuns :
        LET h == hist[i]
            n == Len(h) + 1
            steps == StepIdx(h)
            started_at == CompletedIdx(h, "send_block_start_notification")
            ended_at == EndIdx(h)
            resolved_at == SignalIdx(h) \cup WaitTimeoutIdx(h)
            \* The steps before step completed before place j of h; for
            \* update_block_feedback the wait was resolved, by a signal or by
            \* its timeout.
            Ready(step, j) ==
                LET r == FocusLoopRank(step) IN
                /\ r > 1 => (started_at > 0 /\ started_at < j)
                /\ r > 2 => \E k \in FiredIdx(h, "sleep") : k < j
                /\ r > 3 => (ended_at > 0 /\ ended_at < j)
                /\ r > 4 => \E k \in resolved_at : k < j
        IN  /\ \A j \in steps :
                  LET no == Cardinality({ k \in steps : k <= j }) IN
                  /\ \/ FocusLoopRank(h[j].name) = no
                     \/ no = 4 /\ h[j].name = "update_block_feedback"
                  /\ h[j].type = "ActivityTaskFailed" =>
                        /\ \A k \in steps : k <= j
                        /\ status[i] = "Failed"
                  /\ Ready(h[j].name, j)
            /\ \A k \in DOMAIN calls[i] : Ready(calls[i][k].step, n)
            /\ timer[i] # <<>> => Ready(timer[i][2], n)
            /\ (live /\ status[i] = "Running") => Ready(mem[i].pc, n)
            /\ status[i] = "Completed" =>
                  /\ CompletedIdx(h, "update_block_feedback") > 0
                  /\ result[i] = Some(FocusLoopResponse(input[i].block))

\* A run completed after a crash, its wait resolved by a signal that arrived
\* while it waited.
C32_Witness ==
    \E i \in FocusLoopRuns :
        /\ status[i] = "Completed"
        /\ ncrashes > 0
        /\ WaitingIdx(hist[i]) # {}
        /\ Cardinality(StepIdx(hist[i])) = 4


\* ------------------------------------------------------------ schedule setup
\* C33: once setup has run, at every application start, each of the three
\* schedule ids has its schedule in the engine, exactly one (the engine keeps
\* its schedules by id), and setup has reported success.
C33_CreateOnce ==
    setup_at # None =>
        /\ \A schedule \in Schedules : schedule.id \in schedules
        /\ reply.op = "setup" => reply.outcome = "ok"


\* ------------------------------------------------------------ schedule store
\* list_schedules and delete_schedule take a client of an engine that may
\* hold any of the schedules; the ids a caller may name include one the
\* engine never held.
ScheduleIds == { schedule.id : schedule \in Schedules }
RequestedScheduleIds == ScheduleIds \cup {"unknown"}

InitScheduleStore ==
    /\ started = {}
    /\ wftype = <<>> /\ input = <<>> /\ run = <<>> /\ status = <<>>
    /\ hist = <<>> /\ mem = <<>> /\ attempt = <<>> /\ calls = <<>>
    /\ timer = <<>> /\ result = <<>>
    /\ live = TRUE
    /\ now = 0
    /\ reply = NoReply
    /\ ncrashes = 0
    /\ schedules \in SUBSET ScheduleIds
    /\ setup_at = None
    /\ held = {}
    /\ backoff = None

\* list_schedules: the ids of the schedules the engine lists; any exception
\* of the listing is caught and the empty list returned. fails: the listing
\* raises.
list_schedules(fails) ==
    /\ reply' = [op |-> "list_schedules", id |-> "",
                 outcome |-> IF fails THEN {} ELSE schedules,
                 dup |-> FALSE, caught |-> fails]
    /\ UNCHANGED <<started, wftype, input, run, status, hist, mem, attempt,
                   calls, timer, result, live, now, ncrashes, schedules,
                   setup_at, held, backoff>>

\* delete_schedule that takes the delete of an id the engine does not hold
\* for done.
delete_schedule_unchecked(schedule_id, fails) ==
    /\ schedules' = IF fails THEN schedules ELSE schedules \ {schedule_id}
    /\ reply' = [op |-> "delete_schedule", id |-> schedule_id,
                 outcome |-> ~fails, dup |-> FALSE, caught |-> fails]
    /\ UNCHANGED <<started, wftype, input, run, status, hist, mem, attempt,
                   calls, timer, result, live, now, ncrashes, setup_at, held,
                   backoff>>

\* delete_schedule: handle.delete() removes the schedule and True is
\* returned; it raises when the engine holds no schedule of that id or the
\* call fails, the exception is caught and False returned.
delete_schedule(schedule_id, fails) ==
    LET deleted == ~fails /\ schedule_id \in schedules IN
    /\ schedules' = IF deleted THEN schedules \ {schedule_id} ELSE schedules
    /\ reply' = [op |-> "delete_schedule", id |-> schedule_id,
                 outcome |-> deleted, dup |-> FALSE, caught |-> ~deleted]
    /\ UNCHANGED <<started, wftype, input, run, status, hist, mem, attempt,
                   calls, timer, result, live, now, ncrashes, setup_at, held,
                   backoff>>

ListSchedules == \E fails \in BOOLEAN : list_schedules(fails)

DeleteSchedule ==
    \E schedule_id \in RequestedScheduleIds, fails \in BOOLEAN :
        delete_schedule(schedule_id, fails)

NextScheduleStore ==
    \/ setup_scheduled_workflows
    \/ ListSchedules
    \/ DeleteSchedule

SpecScheduleStore == InitScheduleStore /\ [][NextScheduleStore]_vars

NextGoalSelection ==
    \/ start_weekly_growth_workflow
    \/ Signal
    \/ Activity
    \/ Fire
    \/ Tick

SpecGoalSelection == Init /\ [][NextGoalSelection]_vars

\* The selecting signal of h that resolves the goal wait: the last one
\* buffered before the goals were generated, else the first one after.
ResolvingGoalIdx(h) ==
    LET buffered == { k \in SelectingIdx(h) : k < GenIdx(h) } IN
    IF buffered # {} THEN MaxOf(buffered) ELSE MinOf(SelectingIdx(h))

\* The goal the select_goal signal at k of h names in the list it carries.
MatchedGoal(h, k) == FirstMatch(h[k].val[1].goals, h[k].val[1].goal_id, 1)

\* C35: select_goal signals whose goal_id matches no goal of the list they
\* carry leave a WeeklyGrowth run waiting with no goal selected and its
\* timeout pending; a matching signal delivered before the timeout is the
\* selection save_weekly_summary gets, on every attempt; when the timeout
\* comes first, save_weekly_summary gets the default goal.
C35_UnmatchedSelection ==
    \A i \in WeeklyGrowthRuns :
        LET h == hist[i]
            gen == GenIdx(h)
        IN
        gen > 0 =>
            LET sel == SelectingIdx(h)
                timedout == \E t \in WaitTimeoutIdx(h) : \A k \in sel : t < k
                saved == { calls[i][k].args[5] :
                             k \in { j \in DOMAIN calls[i] :
                                       calls[i][j].step = "save_weekly_summary" } }
            IN
            /\ (sel = {} /\ WaitTimeoutIdx(h) = {}) =>
                  /\ status[i] = "Running"
                  /\ timer[i] # <<>> /\ timer[i][2] = "wait_condition"
                  /\ calls[i][1].step = "generate_micro_goals"
                  /\ live =>
                        /\ mem[i].pc = "wait_condition"
                        /\ ~mem[i].goal_selected
                        /\ mem[i].selected_goal = None
            /\ (sel # {} /\ ~timedout) =>
                  /\ (live /\ status[i] = "Running") =>
                        mem[i].pc = "save_weekly_summary"
                  /\ saved \subseteq {MatchedGoal(h, ResolvingGoalIdx(h))}
            /\ timedout =>
                  saved \subseteq
                      {IF h[gen].val[1] = <<>> THEN None
                       ELSE Some(h[gen].val[1][1])}

\* A run whose wait was passed over by an unmatched signal and resolved by a
\* matching one, its selection saved.
C35_Witness ==
    \E i \in WeeklyGrowthRuns :
        LET h == hist[i] IN
        /\ GenIdx(h) > 0
        /\ SelectingIdx(h) # {}
        /\ \E k \in SignalIdx(h) \ SelectingIdx(h) :
              /\ GenIdx(h) < k
              /\ k < ResolvingGoalIdx(h)
        /\ status[i] = "Completed"
        /\ calls[i][1].step = "save_weekly_summary"
        /\ calls[i][1].args[5] = Some(Goal2)


\* ------------------------------------------------------------ weekly summary
AggIdx(h) == CompletedIdx(h, "aggregate_week_data")
SaveIdx(h) == CompletedIdx(h, "save_weekly_summary")

\* C36: in a WeeklyGrowth run whose aggregate_week_data and
\* generate_micro_goals completed, generate_micro_goals got the stats that
\* aggregate_week_data returned; save_weekly_summary is called once, with
\* those stats and all the generated goals; and the result of the completed
\* run carries those stats, those goals, the selected goal that
\* save_weekly_summary was given, and as success what save_weekly_summary
\* returned.
C36_SummaryConsistency ==
    \A i \in WeeklyGrowthRuns :
        LET h == hist[i] IN
        /\ \A k \in DOMAIN calls[i] :
              /\ calls[i][k].step = "generate_micro_goals" =>
                    /\ AggIdx(h) > 0
                    /\ calls[i][k].args = <<input[i].user_id, h[AggIdx(h)].val[1]>>
              /\ calls[i][k].step = "save_weekly_summary" =>
                    /\ AggIdx(h) > 0 /\ GenIdx(h) > 0
                    /\ calls[i][k].args[1] = input[i].user_id
                    /\ calls[i][k].args[2] = input[i].week_start
                    /\ calls[i][k].args[3] = h[AggIdx(h)].val[1]
                    /\ calls[i][k].args[4] = GeneratedGoals(h)
        /\ Cardinality(OutcomeIdx(h, "save_weekly_summary")) <= 1
        /\ status[i] = "Completed" =>
              /\ SaveIdx(h) > 0
              /\ calls[i][1].step = "save_weekly_summary"
              /\ result[i][1].weekly_stats = h[AggIdx(h)].val[1]
              /\ result[i][1].micro_goals = GeneratedGoals(h)
              /\ result[i][1].success = h[SaveIdx(h)].val[1]
              /\ result[i][1].selected_goal = calls[i][1].args[5]


\* ------------------------------------------------------------ FocusLoop result
UpdateIdx(h) == CompletedIdx(h, "update_block_feedback")

\* C37: every Completed FocusLoop run returns success = true with the block
\* id of its input, whether its feedback came from a signal or is the
\* timeout's default and whichever boolean update_block_feedback returned;
\* update_block_feedback was called, once, on either path.
C37_AlwaysSuccess ==
    \A i \in FocusLoopRuns :
        status[i] = "Completed" =>
            LET h == hist[i] IN
            /\ result[i] # None
            /\ result[i][1].success = TRUE
            /\ result[i][1].block_id = input[i].block.block_id
            /\ ResolvedBySignal(h) \/ ResolvedByTimeout(h)
            /\ Cardinality(OutcomeIdx(h, "update_block_feedback")) = 1
            /\ UpdateIdx(h) = Len(h) \/ SignalIdx(h) # {}
            /\ h[UpdateIdx(h)].val[1] \in BOOLEAN

\* A run completed on the timeout's default although update_block_feedback
\* returned false.
C37_Witness ==
    \E i \in FocusLoopRuns :
        /\ status[i] = "Completed"
        /\ ResolvedByTimeout(hist[i])
        /\ hist[i][UpdateIdx(hist[i])].val[1] = FALSE
        /\ result[i][1].success = TRUE


\* ------------------------------------------------------------ schedule updates
User1UpdateIdx(h) == CompletedIdx(h, "update_user_schedule_user1")
User2UpdateIdx(h) == CompletedIdx(h, "update_user_schedule_user2")

\* C38: the two schedule updates of a MeetingScheduler run are made one
\* after the other and never undone: user2's update is invoked only after
\* user1's has returned, and then whichever value user1's returned; when
\* exactly one of the two returned true the run is Completed with
\* success = false and the meeting in its result, and its history ends with
\* user2's update: no step follows that would take the meeting back out of
\* the schedule that has it.
C38_UpdatesUncompensated ==
    \A i \in MeetingSchedulerRuns :
        LET h == hist[i]
            u1 == User1UpdateIdx(h)
            u2 == User2UpdateIdx(h)
        IN  /\ \A k \in DOMAIN calls[i] :
                  calls[i][k].step = "update_user_schedule_user2" => u1 > 0
            /\ \A k \in OutcomeIdx(h, "update_user_schedule_user2") :
                  u1 > 0 /\ u1 < k
            /\ (u1 > 0 /\ OutcomeIdx(h, "update_user_schedule_user2") = {}) =>
                  /\ status[i] = "Running"
                  /\ live => mem[i].pc = "update_user_schedule_user2"
            /\ (u1 > 0 /\ u2 > 0 /\ h[u1].val[1] # h[u2].val[1]) =>
                  /\ status[i] = "Completed"
                  /\ result[i][1].success = FALSE
                  /\ result[i][1].scheduled_meeting # None
                  /\ u2 = Len(h)
                  /\ \A k \in DOMAIN h :
                        h[k].name \in {"find_optimal_slot"} \cup UpdateSteps
                  /\ calls[i][1].step = "update_user_schedule_user2"

\* user1's schedule has the meeting, user2's has not, and the run reports
\* success = false.
C38_Witness ==
    \E i \in MeetingSchedulerRuns :
        /\ User1UpdateIdx(hist[i]) > 0 /\ User2UpdateIdx(hist[i]) > 0
        /\ hist[i][User1UpdateIdx(hist[i])].val[1] = TRUE
        /\ hist[i][User2UpdateIdx(hist[i])].val[1] = FALSE
        /\ status[i] = "Completed"
        /\ result[i][1].success = FALSE


\* ------------------------------------------------------------ meeting duration
\* Meeting requests of every duration, each user offering one window of the
\* same day.
MeetingDurations == {0, 30, 60}
DurationWindows ==
    { TimeWindow(T0900, T0930, "d1"), TimeWindow(T0930, T1000, "d1"),
      TimeWindow(T0930, T1030, "d1"), TimeWindow(T1000, T1030, "d1") }

DurationMeetingInputs ==
    { [meeting_id |-> "m1", user1_id |-> "u1", user2_id |-> "u2",
       user1_time_windows |-> <<w1>>, user2_time_windows |-> <<w2>>,
       meeting_duration_minutes |-> d, meeting_title |-> "t"] :
      w1 \in DurationWindows, w2 \in DurationWindows, d \in MeetingDurations }

start_meeting_scheduler_workflow_of_duration ==
    \E inp \in DurationMeetingInputs :
        started = {} /\ StartWorkflow("MeetingScheduler", inp)

NextFindSlot ==
    \/ start_meeting_scheduler_workflow_of_duration
    \/ Activity

SpecFindSlot == Init /\ [][NextFindSlot]_vars

\* C39: what find_optimal_slot returned in a run is what it returns for the
\* same windows and any other duration; and when one user's window ends
\* where the other's begins, on the same date, a slot is returned whose
\* start and end are both that time.
C39_DurationIgnored ==
    \A i \in MeetingSchedulerRuns :
        LET h == hist[i]
            u1 == input[i].user1_time_windows
            u2 == input[i].user2_time_windows
        IN  FindIdx(h) > 0 =>
              /\ \A d \in MeetingDurations :
                    FoundSlot(h) = find_optimal_slot_activity(u1, u2, d)
              /\ \A t \in Times :
                    (/\ u1[1].date = u2[1].date
                     /\ \/ u1[1].end_time = t /\ u2[1].start_time = t
                        \/ u2[1].end_time = t /\ u1[1].start_time = t
                     /\ SlotMinutes(u1[1]) > 0 /\ SlotMinutes(u2[1]) > 0) =>
                        FoundSlot(h) = Some(TimeWindow(t, t, u1[1].date))

\* A 60 minute meeting given a slot of no length, from two windows that
\* only touch, and the run went on to schedule it.
C39_Witness ==
    \E i \in MeetingSchedulerRuns :
        /\ input[i].meeting_duration_minutes = 60
        /\ FindIdx(hist[i]) > 0
        /\ FoundSlot(hist[i]) = Some(TimeWindow(T0930, T0930, "d1"))
        /\ SlotMinutes(FoundSlot(hist[i])[1]) = 0
        /\ status[i] = "Completed"
        /\ result[i][1].success


\* C40: setup never raises, and a schedule whose creation failed does not
\* keep the others from existing: once setup has run it has reported
\* success, and when one of the three schedules is missing the other two
\* exist.
C40_SetupIndependent ==
    setup_at # None =>
        /\ reply.op = "setup" => reply.outcome = "ok"
        /\ \A failed \in Schedules :
              failed.id \notin schedules =>
                  \A other \in Schedules \ {failed} : other.id \in schedules

=============================================================================
